---- MODULE Spec2Model ----
(***************************************************************************)
(* Model of the computer-use agent control loop (lacassef/computeruse):    *)
(* the Plan object, the policy engines, the action routers, the skill      *)
(* store and the orchestrator loop.                                        *)
(*                                                                         *)
(* Python's None is modelled by the string "None" (or by 0 where a field   *)
(* is a count).  Python lists are 1-based sequences here; list index i     *)
(* of the code is position i + 1.                                          *)
(***************************************************************************)
EXTENDS Integers, Sequences, FiniteSets, TLC

VARIABLES
    plan,        \* the Plan object under test / owned by the orchestrator
    plan_ops,    \* number of Plan API calls made so far (SpecPlan)
    pol,         \* SpecPolicy: the engine, its rules, the action and the decision
    rt,          \* SpecRouter: the environment, the action, the log and the result
    sk,          \* SpecSkill: the skill files, the clock and the last call
    cfg,         \* Spec: the Settings of the session and what its environment may answer
    state,       \* Spec: the StateManager of _run_session
    loop,        \* Spec: the locals of _run_session and where the session stands
    trace,       \* Spec: what each iteration of the loop did (history variable)
    fs,          \* the writes made under the memory root, in order
    tasks,       \* SpecTasks: where each of the concurrent tasks stands
    cli          \* SpecCli: the process of cua_agent.main and the task it runs

session == <<cfg, state, loop, trace, fs>>
vars == <<plan, plan_ops, pol, rt, sk, cfg, state, loop, trace, fs, tasks, cli>>
nonPlan == <<pol, rt, sk, session, tasks, cli>>
nonPol == <<plan, plan_ops, rt, sk, session, tasks, cli>>
nonRt == <<plan, plan_ops, pol, sk, session, tasks, cli>>
nonSk == <<plan, plan_ops, pol, rt, session, tasks, cli>>
nonSession == <<plan_ops, pol, rt, sk, tasks, cli>>

None == "None"

(***************************************************************************)
(* Bounds of the model.                                                    *)
(***************************************************************************)
MaxIdxSkew == 3       \* planner's current_step_index ranges over -MaxIdxSkew .. 2 + MaxIdxSkew
MaxRawSteps == 2      \* number of step objects in a planner response
MaxPlanOps == 4       \* Plan API calls per behaviour of SpecPlan
MaxMacroLen == 2      \* sub-actions of an enumerated macro_actions
MaxDriverFail == 2    \* only the first MaxDriverFail driver calls of a run may fail
MaxSkillOps == 3      \* SkillStore calls per behaviour of SpecSkill
MaxIter == 4          \* iterations of a session whose max_steps is 0

(***************************************************************************)
(* planning.py: Step and Plan                                              *)
(***************************************************************************)
StepStatus == {"pending", "in_progress", "done", "failed"}

\* dataclass Step: the fields its generated __init__ accepts
StepFields == {"id", "description", "success_criteria", "status", "notes", "expected_state"}

\* A Step value; description/success_criteria/expected_state never influence
\* control flow and are left out, notes is kept ("" or the failure note).
MkStep(id, status) == [id |-> id, status |-> status, notes |-> ""]

MkPlan(id, steps, idx) == [id |-> id, steps |-> steps, idx |-> idx]

\* Python list indexing: position of index i in a list of length n, 0 for IndexError
PyPos(n, i) ==
    IF i >= 0 /\ i < n THEN i + 1
    ELSE IF i < 0 /\ i >= -n THEN n + i + 1
    ELSE 0

\* Plan.current_step: position of the current step, 0 for None
CurrentStepPos(p) ==
    IF 0 <= p.idx /\ p.idx < Len(p.steps) THEN p.idx + 1 ELSE 0

HasCurrentStep(p) == CurrentStepPos(p) # 0

SetStatus(steps, pos, status) == [steps EXCEPT ![pos].status = status]

\* Plan.advance: the plan after the call (when the call raises IndexError the
\* assignments made before the raise are kept)
Advance(p) ==
    IF Len(p.steps) = 0 THEN p
    ELSE LET n == Len(p.steps)
             s1 == IF 0 <= p.idx /\ p.idx < n
                   THEN SetStatus(p.steps, p.idx + 1, "done")
                   ELSE p.steps
         IN IF p.idx < n - 1
            THEN LET ni == p.idx + 1
                     pos == PyPos(n, ni)
                 IN [p EXCEPT !.idx = ni,
                              !.steps = IF pos = 0 THEN s1 ELSE SetStatus(s1, pos, "in_progress")]
            ELSE [p EXCEPT !.idx = n, !.steps = s1]

\* Plan.advance raises IndexError
AdvanceRaises(p) ==
    /\ Len(p.steps) > 0
    /\ p.idx < Len(p.steps) - 1
    /\ PyPos(Len(p.steps), p.idx + 1) = 0

\* Plan.fail_current
FailCurrent(p, note) ==
    LET pos == CurrentStepPos(p)
    IN IF pos = 0 THEN p
       ELSE [p EXCEPT !.steps[pos].status = "failed", !.steps[pos].notes = note]

(***************************************************************************)
(* planner_client.py: plans built from planner output                      *)
(***************************************************************************)
\* keyword arguments _parse_plan_response passes to Step(...)
StepKwargs == {"id", "description", "success_criteria", "status", "notes",
               "expected_state", "recovery_steps", "sub_steps"}

\* Step(**kwargs) raises TypeError on a keyword that is no field
StepCtorOk(kwargs) == kwargs \subseteq StepFields

\* the two-step fallback plan
FallbackSteps == << MkStep(0, "in_progress"), MkStep(1, "pending") >>

PlanIds == {"plan-a"}
RawStatusLists == UNION { [1..n -> StepStatus] : n \in 0..MaxRawSteps }
PlannerIdx == (0 - MaxIdxSkew) .. (2 + MaxIdxSkew)

\* What the planner LLM may answer: an id, a list of step statuses and a
\* current_step_index; "ok" is FALSE when the request or Plan.from_dict raised.
PlannerOutputs ==
    [ok : {TRUE}, id : PlanIds, statuses : RawStatusLists, idx : PlannerIdx]
    \cup [ok : {FALSE}, id : PlanIds, statuses : {<< >>}, idx : {0}]

\* the loop "for idx, raw in enumerate(raw_steps)": a step whose constructor
\* raises is skipped
ParsedSteps(statuses) ==
    IF StepCtorOk(StepKwargs)
    THEN [i \in 1..Len(statuses) |-> MkStep(i - 1, statuses[i])]
    ELSE << >>

\* _parse_plan_response followed by Plan.from_dict
ParsePlanResponse(out) ==
    LET parsed == ParsedSteps(out.statuses)
        steps0 == IF Len(parsed) = 0 THEN FallbackSteps ELSE parsed
        steps1 == IF steps0[1].status = "pending"
                  THEN SetStatus(steps0, 1, "in_progress") ELSE steps0
    IN MkPlan(out.id, steps1, out.idx)

\* PlannerClient.make_plan (client: whether the planner client exists)
MakePlan(client, out) ==
    IF ~client \/ ~out.ok THEN MkPlan("uuid", FallbackSteps, 0)
    ELSE ParsePlanResponse(out)

\* PlannerClient.revise_plan
RevisePlan(client, p, out) ==
    IF ~client \/ ~out.ok THEN p
    ELSE ParsePlanResponse(out)

InProgressPositions(p) == {i \in 1..Len(p.steps) : p.steps[i].status = "in_progress"}

(***************************************************************************)
(* policy_engine.py (core), windows_policy_engine.py                       *)
(*                                                                         *)
(* An action dict is a record; a key the dict lacks has the value None.    *)
(* url is the host of page_url/url as a sequence of labels, value is the   *)
(* JavaScript payload, cmd the shell command as the token list shlex.split *)
(* returns ("malformed" when it raises ValueError).                        *)
(***************************************************************************)
\* action.get("x") of a dict without the key: None, kept apart from every
\* screen coordinate
NoCoord == -1

BaseAction ==
    [type |-> None, command |-> None, value |-> "", url |-> << >>,
     x |-> NoCoord, y |-> NoCoord, target_x |-> NoCoord, target_y |-> NoCoord,
     cmd |-> << >>, bundle_id |-> None, execution |-> None,
     active_window_title |-> None, phantom_mode |-> None, sub_action |-> None,
     semantic_label |-> None, actions |-> << >>, seconds |-> 1]

\* DEFAULT_RULES of the core engine
DefaultRules ==
    [blocked_actions |-> {"shell_command"},
     blocked_bundle_ids |-> {"com.apple.keychainaccess"},
     hitl_actions |-> {"erase_disk", "format_disk", "run_javascript"},
     sensitive_domains |-> {},
     allowed_shell_basenames |-> {},
     exclusion_zones |-> << >>]

\* DEFAULT_RULES of the macos_cua_agent engine
MacDefaultRules == [DefaultRules EXCEPT !.hitl_actions = {"erase_disk", "format_disk"}]

Allow == [allowed |-> TRUE, hitl_required |-> FALSE, reason |-> "", detail |-> None]
Deny(reason, detail) ==
    [allowed |-> FALSE, hitl_required |-> FALSE, reason |-> reason, detail |-> detail]
Hitl(reason, detail) ==
    [allowed |-> TRUE, hitl_required |-> TRUE, reason |-> reason, detail |-> detail]

\* PolicyDecision as one of the three outcomes
Kind(d) == IF ~d.allowed THEN "deny" ELSE IF d.hitl_required THEN "hitl" ELSE "allow"

\* host.endswith("." + domain), on label sequences
IsSuffix(d, h) ==
    /\ Len(d) < Len(h)
    /\ \A i \in 1..Len(d) : d[i] = h[Len(h) - Len(d) + i]

HostMatches(host, domain) == host = domain \/ (Len(domain) > 0 /\ IsSuffix(domain, host))

\* _contains_dangerous_js: the payloads of the model and the ones that hold a
\* keyword after lowercasing ("Function(" never matches a lowercased text)
JsPayloads == {"", "alert(1)", "fetch('/x')", "new Function('x')"}
ContainsDangerousJs(code) == code \in {"fetch('/x')"}

\* one zone of the loop over exclusion_zones: 1 source point hit, 2 target
\* point hit, 0 no hit
ZoneHit(zone, a) ==
    IF a.x # NoCoord /\ a.y # NoCoord
       /\ zone.x <= a.x /\ a.x <= zone.x + zone.w
       /\ zone.y <= a.y /\ a.y <= zone.y + zone.h
    THEN 1
    ELSE IF a.target_x # NoCoord /\ a.target_y # NoCoord
            /\ zone.x <= a.target_x /\ a.target_x <= zone.x + zone.w
            /\ zone.y <= a.target_y /\ a.target_y <= zone.y + zone.h
    THEN 2
    ELSE 0

\* position of the first zone that is hit, 0 when none is
FirstZoneHit(zones, a) ==
    IF \E i \in 1..Len(zones) : ZoneHit(zones[i], a) # 0
    THEN CHOOSE i \in 1..Len(zones) :
            /\ ZoneHit(zones[i], a) # 0
            /\ \A j \in 1..(i - 1) : ZoneHit(zones[j], a) = 0
    ELSE 0

\* action.get("cmd") or action.get("command") or "", tokenized: cmd is kept
\* as the token list of the command string, command is a single word
CmdTokens(a) ==
    IF a.cmd # << >> THEN a.cmd
    ELSE IF a.command # None THEN << a.command >>
    ELSE << >>

\* shlex.split raises ValueError on a token with an unclosed quote
Malformed(toks) == \E i \in 1..Len(toks) : toks[i] = "'ls"

\* shutil.which on the machine of the model
Which(name) ==
    CASE name = "ls" -> "/bin/ls"
      [] name = "echo" -> "/bin/echo"
      [] name = "git" -> "/usr/bin/git"
      [] name = "rm" -> "/bin/rm"
      [] OTHER -> None

\* PolicyEngine.ALLOWED_COMMANDS
AllowedCommandPaths == {"/bin/ls", "/bin/echo", "/usr/bin/grep", "/usr/bin/wc", "/usr/bin/git"}
AllowedArgs(path) ==
    IF path = "/usr/bin/git" THEN {"status", "log", "diff", "show", "checkout", "branch"}
    ELSE {"*"}

StartsWithDash(tok) == tok \in {"-rf", "-v", "--no-pager"}

\* the sandbox_shell block of PolicyEngine.evaluate: a denial, or Allow when
\* the block falls through
ShellCheck(a) ==
    LET argv == CmdTokens(a)
    IN IF Malformed(argv) THEN Deny("malformed command string", None)
       ELSE IF Len(argv) = 0 THEN Deny("empty command", None)
       ELSE LET resolved == Which(argv[1])
            IN IF resolved = None THEN Deny("command not found", argv[1])
               ELSE IF resolved \notin AllowedCommandPaths
                    THEN Deny("command path not allowlisted", resolved)
               ELSE IF "*" \notin AllowedArgs(resolved) /\ Len(argv) > 1
                       /\ ~StartsWithDash(argv[2]) /\ argv[2] \notin AllowedArgs(resolved)
                    THEN Deny("subcommand not allowed", argv[2])
               ELSE Allow

\* the tail of both evaluate methods: zones, shell, bundle, hitl
EvaluateTail(rules, a, hitl_by_command) ==
    LET z == FirstZoneHit(rules.exclusion_zones, a)
    IN IF z # 0
       THEN IF ZoneHit(rules.exclusion_zones[z], a) = 1
            THEN Deny("interaction in exclusion zone", rules.exclusion_zones[z].label)
            ELSE Deny("interaction target in exclusion zone", rules.exclusion_zones[z].label)
       ELSE IF a.type = "sandbox_shell" /\ ~ShellCheck(a).allowed THEN ShellCheck(a)
       ELSE IF a.bundle_id # None /\ a.bundle_id \in rules.blocked_bundle_ids
            THEN Deny("bundle blocked", a.bundle_id)
       ELSE IF a.type \in rules.hitl_actions
            THEN Hitl("human confirmation required", None)
       ELSE IF hitl_by_command /\ a.command # None /\ a.command \in rules.hitl_actions
            THEN Hitl("human confirmation required", None)
       ELSE Allow

\* cua_agent PolicyEngine.evaluate, the if-chain in source order
CoreEvaluate(rules, a) ==
    IF a.type \in rules.blocked_actions THEN Deny("action blocked", a.type)
    ELSE IF a.command # None /\ a.command \in rules.blocked_actions
         THEN Deny("command blocked", a.command)
    ELSE IF a.type = "browser_op" /\ a.command = "run_javascript"
            /\ \E d \in rules.sensitive_domains : HostMatches(a.url, d)
         THEN Deny("run_javascript blocked on sensitive domain", None)
    ELSE IF a.type = "browser_op" /\ a.command = "run_javascript"
            /\ ContainsDangerousJs(a.value)
         THEN Hitl("run_javascript requires confirmation", a.value)
    ELSE EvaluateTail(rules, a, TRUE)

\* the first token of the command with quotes stripped and lowercased
WinToken(tok) == IF tok = "'ls" THEN "ls" ELSE tok

\* the destructive substrings of the command string, on its token list
WinDestructive(toks) ==
    \/ \E i \in 1..Len(toks) : toks[i] = "remove-item"
    \/ \E i \in 1..(Len(toks) - 1) :
          \/ toks[i] \in {"rd", "rmdir", "del"} /\ toks[i + 1] = "/s"
          \/ toks[i] = "rm" /\ toks[i + 1] = "-rf"
          \/ toks[i] = "format"

\* re.search(r"\.(ps1|bat|vbs)\b") and the -file form
WinScript(toks) == \E i \in 1..Len(toks) : toks[i] \in {"run.ps1", "x.bat"}

\* WindowsPolicyEngine._evaluate_windows_shell (allow_env is the
\* shell_allowed_commands setting as a set of names)
EvaluateWindowsShell(rules, allow_env, a) ==
    LET toks == CmdTokens(a)
        allow == IF allow_env # {} THEN allow_env ELSE rules.allowed_shell_basenames
    IN IF Len(toks) = 0 THEN Deny("empty command", None)
       ELSE IF allow # {} /\ WinToken(toks[1]) \notin allow
            THEN Deny("command not allowed", WinToken(toks[1]))
       ELSE IF WinDestructive(toks) THEN Hitl("destructive shell operation", None)
       ELSE IF WinScript(toks) THEN Hitl("script execution", None)
       ELSE Allow

\* WindowsPolicyEngine.evaluate
WindowsEvaluate(rules, allow_env, a) ==
    IF a.type = "sandbox_shell" THEN EvaluateWindowsShell(rules, allow_env, a)
    ELSE CoreEvaluate(rules, a)

\* macos_cua_agent PolicyEngine.evaluate (no browser rules, no command rules)
MacEvaluate(rules, a) ==
    IF a.type \in rules.blocked_actions THEN Deny("action blocked", a.type)
    ELSE EvaluateTail(rules, a, FALSE)

\* Windows ActionEngine._requires_hitl, consulted before the policy engine
RequiresHitl(a) ==
    \/ a.bundle_id = "consent.exe"
    \/ a.active_window_title = "user account control"
    \/ a.type = "sandbox_shell"
       /\ (WinDestructive(CmdTokens(a)) \/ WinScript(CmdTokens(a)))

(***************************************************************************)
(* action_engine.py (macOS and Windows): the action router                 *)
(*                                                                         *)
(* A router run threads r = [events, calls]: the log of policy decisions,  *)
(* context queries and driver calls in program order, and the number of    *)
(* driver calls made.  The n-th driver call fails when n is in env.fail.   *)
(* The path of an action is its position in the call tree: << >> for the   *)
(* action given to execute, Append(p, i) for sub-action i of the macro at  *)
(* p.                                                                      *)
(***************************************************************************)
Ev(kind, who, path) == [ev |-> kind, who |-> who, path |-> path]

\* ActionResult: detail is << idx, reason >> of the failed step in
\* "macro step {idx} failed: {reason}", subresults is metadata["subresults"].
\* raised marks what a call gives when it returns no ActionResult because an
\* exception leaves it; reason then names the exception.
\* metadata holds what a clipboard read puts there: present is whether the
\* keys "content" and "redacted" are set.
NoMetadata == [present |-> FALSE, content |-> << >>, redacted |-> FALSE]

Result(ok, reason) ==
    [success |-> ok, reason |-> reason, detail |-> << >>, subresults |-> << >>,
     raised |-> FALSE, metadata |-> NoMetadata]

Raise(exc) == [Result(FALSE, exc) EXCEPT !.raised = TRUE]

(***************************************************************************)
(* The secret redactor of a clipboard read.  The clipboard content is a    *)
(* sequence of one-character strings; each re.search of the code is the    *)
(* existence of a position where its pattern matches.                      *)
(***************************************************************************)
UpperLetters == 
    << "A", "B", "C", "D", "E", "F", "G", "H", "I", "J", "K", "L", "M",
       "N", "O", "P", "Q", "R", "S", "T", "U", "V", "W", "X", "Y", "Z" >>
LowerLetters == 
    << "a", "b", "c", "d", "e", "f", "g", "h", "i", "j", "k", "l", "m",
       "n", "o", "p", "q", "r", "s", "t", "u", "v", "w", "x", "y", "z" >>
UpperSet == {UpperLetters[i] : i \in 1..Len(UpperLetters)}
LowerSet == {LowerLetters[i] : i \in 1..Len(LowerLetters)}
DigitSet == {"0", "1", "2", "3", "4", "5", "6", "7", "8", "9"}
WhiteSpace == {" ", "\t", "\n"}

\* what re.IGNORECASE compares: the lower-case letter of an upper-case one
FoldCase(ch) ==
    IF ch \in UpperSet THEN LowerLetters[CHOOSE i \in 1..Len(UpperLetters) : UpperLetters[i] = ch]
    ELSE ch

\* the literal lit stands in s from position i on, with or without case
LitAt(s, i, lit) ==
    /\ i + Len(lit) - 1 <= Len(s)
    /\ \A j \in 1..Len(lit) : s[i + j - 1] = lit[j]

LitAtFold(s, i, lit) ==
    /\ i + Len(lit) - 1 <= Len(s)
    /\ \A j \in 1..Len(lit) : FoldCase(s[i + j - 1]) = lit[j]

\* the n characters of s from position i on all belong to class
ClassRun(s, i, n, class) ==
    /\ i + n - 1 <= Len(s)
    /\ \A j \in i..(i + n - 1) : s[j] \in class

PemBegin == << "-", "-", "-", "-", "-", "B", "E", "G", "I", "N", " " >>
PemEnd == << "P", "R", "I", "V", "A", "T", "E", " ", "K", "E", "Y", "-", "-", "-", "-", "-" >>
\* r"-----BEGIN [A-Z ]*PRIVATE KEY-----"
MatchesPem(s) ==
    \E i \in 1..Len(s), k \in 0..Len(s) :
        /\ LitAt(s, i, PemBegin)
        /\ ClassRun(s, i + Len(PemBegin), k, UpperSet \cup {" "})
        /\ LitAt(s, i + Len(PemBegin) + k, PemEnd)

AwsPrefix == << "A", "K", "I", "A" >>
AwsKeyLen == 16
\* r"AKIA[0-9A-Z]{16}"
MatchesAws(s) ==
    \E i \in 1..Len(s) :
        /\ LitAt(s, i, AwsPrefix)
        /\ ClassRun(s, i + Len(AwsPrefix), AwsKeyLen, DigitSet \cup UpperSet)

JwtPrefix == << "e", "y", "j" >>
JwtMinLen == 10
JwtChars == LowerSet \cup UpperSet \cup DigitSet \cup {"_", "-"}
\* r"(?i)eyJ[a-zA-Z0-9_-]{10,}\.[a-zA-Z0-9._-]+"
MatchesJwt(s) ==
    \E i \in 1..Len(s), k \in JwtMinLen..Len(s) :
        /\ LitAtFold(s, i, JwtPrefix)
        /\ ClassRun(s, i + Len(JwtPrefix), k, JwtChars)
        /\ LitAt(s, i + Len(JwtPrefix) + k, << "." >>)
        /\ ClassRun(s, i + Len(JwtPrefix) + k + 1, 1, JwtChars \cup {"."})

SecretWords == {<< "a", "p", "i", "_", "k", "e", "y" >>,
                << "s", "e", "c", "r", "e", "t" >>,
                << "t", "o", "k", "e", "n" >>,
                << "p", "a", "s", "s", "w", "o", "r", "d" >>}
SecretMinLen == 8
SecretChars == UpperSet \cup LowerSet \cup DigitSet \cup {"/", "+", "=", "_", "-"}
\* r"(?i)(api_key|secret|token|password)[=:]\s*[A-Za-z0-9\/+=_-]{8,}"
MatchesAssignment(s) ==
    \E i \in 1..Len(s), w \in SecretWords, k \in 0..Len(s) :
        /\ LitAtFold(s, i, w)
        /\ ClassRun(s, i + Len(w), 1, {"=", ":"})
        /\ ClassRun(s, i + Len(w) + 1, k, WhiteSpace)
        /\ ClassRun(s, i + Len(w) + 1 + k, SecretMinLen, SecretChars)

\* the loop over secret_patterns
MatchesSecretPattern(s) ==
    MatchesPem(s) \/ MatchesAws(s) \/ MatchesJwt(s) \/ MatchesAssignment(s)

\* math.log2 of 1..64 in millionths of a bit
Log2Micro ==
    << 0, 1000000, 1584963, 2000000, 2321928, 2584963, 2807355, 3000000,
       3169925, 3321928, 3459432, 3584963, 3700440, 3807355, 3906891,
       4000000, 4087463, 4169925, 4247928, 4321928, 4392317, 4459432,
       4523562, 4584963, 4643856, 4700440, 4754888, 4807355, 4857981,
       4906891, 4954196, 5000000, 5044394, 5087463, 5129283, 5169925,
       5209453, 5247928, 5285402, 5321928, 5357552, 5392317, 5426265,
       5459432, 5491853, 5523562, 5554589, 5584963, 5614710, 5643856,
       5672425, 5700440, 5727920, 5754888, 5781360, 5807355, 5832890,
       5857981, 5882643, 5906891, 5930737, 5954196, 5977280, 6000000 >>

\* ActionEngine._shannon_entropy times the length of the data, in
\* millionths of a bit: the sum over the distinct characters of
\* count * log2(length / count)
EntropyTimesLen(s) ==
    LET chars == {s[i] : i \in 1..Len(s)}
        count(ch) == Cardinality({i \in 1..Len(s) : s[i] = ch})
        RECURSIVE Sum(_)
        Sum(cs) == IF cs = {} THEN 0
                   ELSE LET ch == CHOOSE c \in cs : TRUE
                        IN count(ch) * (Log2Micro[Len(s)] - Log2Micro[count(ch)])
                           + Sum(cs \ {ch})
    IN Sum(chars)

EntropyMinLen == 32
EntropyThreshold == 4
HighEntropy(s) ==
    Len(s) >= EntropyMinLen /\ EntropyTimesLen(s) > EntropyThreshold * 1000000 * Len(s)

Redacted == << "<", "R", "E", "D", "A", "C", "T", "E", "D", ">" >>

\* a redactor that looks for the patterns only
RedactPatternsOnly(content) ==
    IF content = << >> THEN [sensitive |-> FALSE, content |-> content]
    ELSE IF MatchesSecretPattern(content) THEN [sensitive |-> TRUE, content |-> Redacted]
    ELSE [sensitive |-> FALSE, content |-> content]

\* ActionEngine._redact_clipboard_content
RedactClipboardContent(content) ==
    IF content = << >> THEN [sensitive |-> FALSE, content |-> content]
    ELSE IF MatchesSecretPattern(content) THEN [sensitive |-> TRUE, content |-> Redacted]
    ELSE IF HighEntropy(content) THEN [sensitive |-> TRUE, content |-> Redacted]
    ELSE [sensitive |-> FALSE, content |-> content]

\* ActionEngine._handle_clipboard for sub_action "read" once pbpaste gave
\* the content
ClipboardRead(content) ==
    LET red == RedactClipboardContent(content)
    IN [Result(TRUE, IF red.sensitive THEN "read clipboard (redacted)" ELSE "read clipboard")
          EXCEPT !.metadata = [present |-> TRUE, content |-> red.content,
                               redacted |-> red.sensitive]]

DriverCall(env, r, driver, path) ==
    [ok |-> (r.calls + 1) \notin env.fail,
     r |-> [events |-> Append(r.events, Ev("driver", driver, path)), calls |-> r.calls + 1]]

Query(r, driver, path) == [r EXCEPT !.events = Append(@, Ev("query", driver, path))]

DriverResult(env, r, driver, path) ==
    LET c == DriverCall(env, r, driver, path)
    IN [res |-> Result(c.ok, IF c.ok THEN "ok" ELSE "driver failed"), r |-> c.r]

HasPoint(a) == a.x # NoCoord /\ a.y # NoCoord

\* ActionEngine._execute_hid
ExecuteHid(env, a, path, r) ==
    LET phantom == a.phantom_mode = "true" /\ a.type = "left_click" /\ HasPoint(a)
        ax == DriverCall(env, r, "accessibility", path)
        r1 == IF phantom THEN ax.r ELSE r
    IN IF phantom /\ ax.ok THEN [res |-> Result(TRUE, "ok"), r |-> ax.r]
       ELSE IF a.type \in {"left_click", "mouse_move"} /\ HasPoint(a)
            THEN DriverResult(env, r1, "hid", path)
       ELSE IF a.type \in {"type", "key"} THEN DriverResult(env, r1, "hid", path)
       ELSE IF a.type = "open_app"
            THEN LET k1 == DriverResult(env, r1, "hid", path)
                     k2 == DriverResult(env, k1.r, "hid", path)
                 IN IF ~k1.res.success THEN k1
                    ELSE IF ~k2.res.success THEN k2
                    ELSE DriverResult(env, k2.r, "hid", path)
       ELSE [res |-> Result(FALSE, "unknown action"), r |-> r1]

\* Windows ActionEngine._enrich_action: the enriched dict and the query made
EnrichAction(env, a, path, r) ==
    LET js == a.execution = "browser" /\ a.command = "run_javascript"
    IN [a |-> [a EXCEPT !.bundle_id = IF @ = None THEN env.foreground ELSE @,
                        !.active_window_title = env.title,
                        !.url = IF js /\ env.page_url # << >> THEN env.page_url ELSE @],
        r |-> IF js THEN Query(r, "browser", path) ELSE r]

\* Windows ActionEngine._retarget_action_semantically
RetargetActionSemantically(env, a, path, r) ==
    IF a.type \in {"left_click", "mouse_move", "type"} /\ a.semantic_label # None
    THEN [a |-> IF env.ax_node THEN [a EXCEPT !.x = 50, !.y = 50] ELSE a,
          r |-> Query(r, "accessibility", path)]
    ELSE [a |-> a, r |-> r]

\* the macro _cyborg_fallback_for_browser_action synthesizes for navigate
CyborgNavigateMacro ==
    << [BaseAction EXCEPT !.type = "key"], [BaseAction EXCEPT !.type = "wait"],
       [BaseAction EXCEPT !.type = "type"], [BaseAction EXCEPT !.type = "key"] >>

RECURSIVE Execute(_, _, _, _)
RECURSIVE RunMacroActions(_, _, _, _, _, _)

\* a macro loop that goes on after a failed sub-action
RunMacroActionsKeepGoing(env, actions, i, path, r, sub) ==
    IF i > Len(actions)
    THEN [res |-> [Result(\A k \in 1..Len(sub) : sub[k].success, "macro complete") EXCEPT
                     !.subresults = sub],
          r |-> r]
    ELSE LET e == Execute(env, actions[i], Append(path, i - 1), r)
         IN IF e.res.raised THEN e
            ELSE RunMacroActions(env, actions, i + 1, path, e.r,
                                 Append(sub, [index |-> i - 1, success |-> e.res.success,
                                              reason |-> e.res.reason]))

\* ActionEngine._run_macro_actions, from position i of the list on
RunMacroActions(env, actions, i, path, r, sub) ==
    IF i > Len(actions)
    THEN [res |-> [Result(TRUE, "macro complete") EXCEPT !.subresults = sub], r |-> r]
    ELSE IF actions[i].type = "macro_actions"
    THEN [res |-> [Result(FALSE, "nested macro not allowed") EXCEPT
                     !.subresults = Append(sub, [index |-> i - 1, success |-> FALSE,
                                                 reason |-> "nested macro not allowed"])],
          r |-> r]
    ELSE LET adj == IF env.platform = "windows" /\ env.enable_semantic
                    THEN RetargetActionSemantically(env, actions[i], Append(path, i - 1), r)
                    ELSE [a |-> actions[i], r |-> r]
             e == Execute(env, adj.a, Append(path, i - 1), adj.r)
             sub1 == Append(sub, [index |-> i - 1, success |-> e.res.success,
                                  reason |-> e.res.reason])
         IN IF e.res.raised THEN e
            ELSE IF ~e.res.success
            THEN [res |-> [Result(FALSE, "macro step failed") EXCEPT
                             !.detail = << i - 1, e.res.reason >>, !.subresults = sub1],
                  r |-> e.r]
            ELSE RunMacroActions(env, actions, i + 1, path, e.r, sub1)

\* the dispatch table of execute, after the policy allowed the action
Dispatch(env, a, path, r) ==
    IF a.type \in {"noop", "capture_only"} THEN [res |-> Result(TRUE, "noop"), r |-> r]
    ELSE IF a.type = "wait"
         THEN [res |-> IF a.seconds < 0 THEN Raise("ValueError") ELSE Result(TRUE, "waited"),
               r |-> r]
    ELSE IF a.type = "inspect_ui" THEN DriverResult(env, r, "accessibility", path)
    ELSE IF a.type = "probe_ui"
         THEN IF ~HasPoint(a)
              THEN [res |-> Result(FALSE, "probe_ui requires x,y coordinates"), r |-> r]
              ELSE DriverResult(env, r, "accessibility", path)
    ELSE IF a.type = "clipboard_op"
         THEN IF a.sub_action = "read"
              THEN LET c == DriverCall(env, r, "clipboard", path)
                   IN [res |-> IF c.ok THEN ClipboardRead(env.clipboard)
                               ELSE Result(FALSE, "driver failed"),
                       r |-> c.r]
              ELSE IF a.sub_action \in {"write", "clear"}
              THEN DriverResult(env, r, "clipboard", path)
              ELSE [res |-> Result(FALSE, "unknown clipboard sub_action"), r |-> r]
    ELSE IF a.type = "macro_actions" THEN RunMacroActions(env, a.actions, 1, path, r, << >>)
    ELSE IF a.execution = "browser"
         THEN LET b == DriverResult(env, r, "browser", path)
              IN IF b.res.success \/ env.platform = "macos" THEN b
                 ELSE IF env.cyborg /\ env.cdp_down
                 THEN IF a.command = "navigate"
                      THEN LET m == RunMacroActions(env, CyborgNavigateMacro, 1, path, b.r, << >>)
                           IN [res |-> [m.res EXCEPT
                                          !.reason = IF m.res.success
                                                     THEN "CDP unavailable; navigated via Cyborg macro"
                                                     ELSE "CDP unavailable; Cyborg navigate macro failed",
                                          !.detail = << >>],
                               r |-> m.r]
                      ELSE [res |-> Result(TRUE, "CDP unavailable; skipped"), r |-> b.r]
                 ELSE b
    ELSE IF a.execution = "semantic" /\ env.enable_semantic
         THEN DriverResult(env, r, "semantic", path)
    ELSE IF a.execution = "shell" THEN DriverResult(env, r, "shell", path)
    ELSE ExecuteHid(env, a, path, r)

\* a router that treats allow+hitl as allow
ExecuteIgnoringHitl(env, a0, path, r0) ==
    LET d == IF env.platform = "windows" THEN WindowsEvaluate(env.rules, env.allow_env, a0)
             ELSE MacEvaluate(env.rules, a0)
        r2 == [r0 EXCEPT !.events = Append(@, Ev("policy", Kind(d), path))]
    IN IF ~d.allowed THEN [res |-> Result(FALSE, d.reason), r |-> r2]
       ELSE Dispatch(env, a0, path, r2)

\* ActionEngine.execute of the platform of env
Execute(env, a0, path, r0) ==
    LET en == IF env.platform = "windows" THEN EnrichAction(env, a0, path, r0)
              ELSE [a |-> a0, r |-> r0]
        d == IF env.platform = "windows" THEN WindowsEvaluate(env.rules, env.allow_env, en.a)
             ELSE MacEvaluate(env.rules, en.a)
        r2 == [en.r EXCEPT !.events = Append(@, Ev("policy", Kind(d), path))]
    IN IF env.platform = "windows" /\ RequiresHitl(en.a)
       THEN [res |-> Result(FALSE, "human confirmation required"),
             r |-> [en.r EXCEPT !.events = Append(@, Ev("requires_hitl", "hitl", path))]]
       ELSE IF ~d.allowed THEN [res |-> Result(FALSE, d.reason), r |-> r2]
       ELSE IF d.hitl_required
            THEN [res |-> Result(FALSE, "human confirmation required"), r |-> r2]
       ELSE Dispatch(env, en.a, path, r2)

(***************************************************************************)
(* SpecPlan: a plan returned by make_plan, then any sequence of            *)
(* revise_plan, advance and fail_current.                                  *)
(***************************************************************************)
(***************************************************************************)
(* skill_store.py                                                          *)
(*                                                                         *)
(* A dict is the sequence of its << key, value >> pairs in insertion       *)
(* order; a list element that is no dict is NotADict.  A skill file is a   *)
(* record of the store, keyed by id.  SHA-1 is taken to be injective on    *)
(* the canonical JSON text, so a fingerprint is that text: the list of     *)
(* dicts with the pairs of each sorted by key.                             *)
(***************************************************************************)
NotADict == << << "", "not a dict" >> >>

\* the position of a key in the order of sort_keys=True
KeyRank(k) == CASE k = "type" -> 1 [] k = "x" -> 2 [] k = "y" -> 3 [] OTHER -> 4

\* json.dumps(d, sort_keys=True) of one dict: its pairs in key order
SortKeys(d) ==
    CHOOSE s \in [1..Len(d) -> {d[i] : i \in 1..Len(d)}] :
        /\ \A i \in 1..Len(d) : \E j \in 1..Len(d) : s[j] = d[i]
        /\ \A i, j \in 1..Len(d) : i < j => KeyRank(s[i][1]) < KeyRank(s[j][1])

\* _fingerprint_actions
FingerprintActions(actions) == [i \in 1..Len(actions) |-> SortKeys(actions[i])]

\* [dict(a) for a in actions if isinstance(a, dict)]
RECURSIVE CleanedActions(_)
CleanedActions(actions) ==
    IF actions = << >> THEN << >>
    ELSE IF Head(actions) = NotADict THEN CleanedActions(Tail(actions))
    ELSE << Head(actions) >> \o CleanedActions(Tail(actions))

\* uuid.uuid4(): the n-th fresh id
FreshId(n) == << "uuid", n >>

NoSkill ==
    [id |-> << >>, name |-> "", description |-> "", actions |-> << >>, created_at |-> 0,
     updated_at |-> 0, usage_count |-> 0, last_used |-> 0, tags |-> {}, fingerprint |-> << >>]

\* list_skills, as the set of readable skill files
ListSkills(store) == store

\* a lookup that never finds a stored fingerprint
FindNothing(store, fp) == NoSkill

\* _find_by_fingerprint: the first match in created_at order, NoSkill for None
FindByFingerprint(store, fp) ==
    LET m == {s \in ListSkills(store) : s.fingerprint = fp}
    IN IF m = {} THEN NoSkill
       ELSE CHOOSE s \in m : \A t \in m : s.created_at <= t.created_at

\* get_skill: by id file first, then the first skill of that name
GetSkill(store, ref) ==
    LET by_id == {s \in store : s.id = ref}
        by_name == {s \in store : << s.name >> = ref}
    IN IF ref = << >> THEN NoSkill
       ELSE IF by_id # {} THEN CHOOSE s \in by_id : TRUE
       ELSE IF by_name # {} THEN CHOOSE s \in by_name : \A t \in by_name : s.created_at <= t.created_at
       ELSE NoSkill

\* _write: the file of skill.id is replaced; a failed open leaves the store
\* as it was (the exception is logged and swallowed)
Write(store, skill, ok) ==
    IF ok THEN {s \in store : s.id # skill.id} \cup {skill} ELSE store

\* save_skill: [raised, ret, store, ids], ids the number of uuids drawn
SaveSkill(store, ids, now, name, description, actions, tags, ok) ==
    LET cleaned == CleanedActions(actions)
        fp == FingerprintActions(cleaned)
        existing == FindByFingerprint(store, fp)
        updated == [existing EXCEPT
                      !.updated_at = now,
                      !.usage_count = @ + 1,
                      !.tags = IF tags # {} THEN @ \cup tags ELSE @,
                      !.description = IF description # "" /\ @ = "" THEN description ELSE @]
        fresh == [NoSkill EXCEPT
                    !.id = FreshId(ids + 1),
                    !.name = IF name # "" THEN name ELSE "skill-uuid",
                    !.description = description,
                    !.actions = cleaned,
                    !.created_at = now,
                    !.updated_at = now,
                    !.tags = tags,
                    !.fingerprint = fp]
    IN IF cleaned = << >>
       THEN [raised |-> TRUE, ret |-> NoSkill, store |-> store, ids |-> ids]
       ELSE IF existing # NoSkill
       THEN [raised |-> FALSE, ret |-> updated, store |-> Write(store, updated, ok), ids |-> ids]
       ELSE [raised |-> FALSE, ret |-> fresh, store |-> Write(store, fresh, ok), ids |-> ids + 1]

\* record_usage
RecordUsage(store, now, ref, ok) ==
    LET skill == GetSkill(store, ref)
        used == [skill EXCEPT !.usage_count = @ + 1, !.last_used = now, !.updated_at = now]
    IN IF skill = NoSkill THEN [ret |-> NoSkill, store |-> store]
       ELSE [ret |-> used, store |-> Write(store, used, ok)]

IdleSk ==
    [store |-> {}, ids |-> 0, clock |-> 1, ops |-> 0,
     last |-> [op |-> "none", fp |-> << >>, raised |-> FALSE, ok |-> TRUE,
               ret |-> NoSkill, before |-> {}]]

(***************************************************************************)
(* cua_agent/agent/state_manager.py: the counters of StateManager.  A      *)
(* limit of 0 (max_wall: the empty set for None) is falsy and switches     *)
(* its check off.                                                          *)
(***************************************************************************)
\* StateManager() as __init__ leaves it.  A line of history is its kind,
\* the text before the first colon.
\* module is the package the StateManager class comes from
NewState ==
    [module |-> "cua_agent", steps |-> 0, failure_count |-> 0, history |-> << >>,
     stuck_reasons |-> << >>, notebook |-> 0]

\* state.history.append(line)
Said(st, line) == [st EXCEPT !.history = Append(@, line)]

\* a record_action that counts a step only for a successful result
RecordActionOnSuccess(st, result) ==
    [st EXCEPT !.history = Append(@, "action"),
               !.steps = IF result.success THEN @ + 1 ELSE @,
               !.failure_count = IF ~result.success /\ result.reason # "hotkey deduped"
                                 THEN @ + 1 ELSE @]

\* StateManager.record_action; no action of the sessions has a browser
\* payload, so _summarize_browser_result adds no line
RecordAction(st, result) ==
    [st EXCEPT !.history = Append(@, "action"),
               !.steps = @ + 1,
               !.failure_count = IF ~result.success /\ result.reason # "hotkey deduped"
                                 THEN @ + 1 ELSE @]

\* StateManager.record_action of macos_cua_agent/agent/state_manager.py
MacRecordAction(st, result) ==
    [st EXCEPT !.history = Append(@, "action"),
               !.steps = @ + 1,
               !.failure_count = IF ~result.success THEN @ + 1 ELSE @]

\* StateManager.add_note and clear_notebook; notebook is the number of notes
AddNote(st) == [st EXCEPT !.notebook = @ + 1, !.history = Append(@, "notebook")]
ClearNotebook(st) == [st EXCEPT !.notebook = 0, !.history = Append(@, "notebook")]

\* StateManager.record_observation
RecordObservation(st) == Said(st, "observation")

\* a record_stuck that writes the history line and leaves stuck_reasons alone
RecordStuckInHistoryOnly(st, reason) == [st EXCEPT !.history = Append(@, "stuck")]

\* StateManager.record_stuck
RecordStuck(st, reason) ==
    [st EXCEPT !.stuck_reasons = Append(@, reason), !.history = Append(@, "stuck")]

\* _run_session lines 72-86: plan_init, user_prompt, the initial capture
StartedState == RecordObservation(Said(Said(NewState, "plan_init"), "user_prompt"))

\* the test at the top of the loop and _compress_history; summary tells
\* whether summarize_history_chunk returned text
CompressHistory(h, summary) ==
    IF Len(h) > 60 /\ summary
    THEN << h[1], "history_summary" >> \o SubSeq(h, 22, Len(h))
    ELSE h

\* a should_halt without the failure limit
ShouldHaltWithoutFailureLimit(c, st, elapsed) ==
    \/ c.max_steps # 0 /\ st.steps >= c.max_steps
    \/ \E w \in c.max_wall : w # 0 /\ elapsed >= w

\* StateManager.should_halt, elapsed = time.time() - started_at
ShouldHalt(c, st, elapsed) ==
    \/ c.max_steps # 0 /\ st.steps >= c.max_steps
    \/ c.max_failures # 0 /\ st.failure_count >= c.max_failures
    \/ \E w \in c.max_wall : w # 0 /\ elapsed >= w

(***************************************************************************)
(* vision_pipeline.py.  A frame is the set of lit cells of a coarse grid;  *)
(* its perceptual hash has one bit per cell, the pixel difference and the  *)
(* structural similarity are taken over the cells.  Scores are in          *)
(* thousandths, a score that is None is the empty set.                     *)
(***************************************************************************)
\* frames capture_with_hash may return (the grid has two cells)
Frames == {{}, {1}, {1, 2}}
PhashStaticThreshold == 1
StagnationLimit == 5
MaxHints == 3
MaxPlanRevisions == 3
SsimChangeThreshold == 985

\* VisionPipeline.hash_distance of the hashes of two captured frames: the
\* number of cells in which they differ
HashDistance(f, g) == Cardinality((f \ g) \cup (g \ f))

\* VisionPipeline.has_changed: mean absolute difference of at least 1%
HasChanged(f, g) == 100 * Cardinality((f \ g) \cup (g \ f)) >= Cardinality(UNION Frames)

\* VisionPipeline.structural_similarity; skimage: whether the import works
StructuralSimilarity(skimage, f, g) ==
    IF skimage
    THEN {1000 - (1000 * Cardinality((f \ g) \cup (g \ f))) \div Cardinality(UNION Frames)}
    ELSE {}

(***************************************************************************)
(* ax_pruning.py and the accessibility tree.  A node is a record with the  *)
(* keys of the dict: role, title, value, frame always, raw_frame and       *)
(* children when the dict has them.  A frame is << x, y, w, h >>, a frame  *)
(* that is None is << >>.  An optional tree is the empty set or {tree}.    *)
(***************************************************************************)
InteractiveRoles == {"AXButton", "AXTextField", "AXTextArea", "AXLink", "AXCheckBox",
                     "AXComboBox", "AXMenuItem"}

\* "frame and w > 0 and h > 0"
FrameUsable(fr) == fr # << >> /\ fr[3] > 0 /\ fr[4] > 0

\* node.get("children") or []
NodeChildren(node) == IF "children" \in DOMAIN node THEN node.children ELSE << >>

\* _walk of prune_ax_tree_for_prompt: the pruned node ({} for None) and the
\* counter kept after the call
RECURSIVE Walk(_, _, _, _, _)
Walk(node, depth, kept, max_nodes, max_depth) ==
    IF kept >= max_nodes \/ depth > max_depth THEN [out |-> {}, kept |-> kept]
    ELSE LET kids == NodeChildren(node)
             RECURSIVE Fold(_, _, _)
             Fold(i, acc, k) ==
                 IF i > Len(kids) \/ k >= max_nodes THEN [outs |-> acc, kept |-> k]
                 ELSE LET w == Walk(kids[i], depth + 1, k, max_nodes, max_depth)
                      IN Fold(i + 1,
                              IF w.out = {} THEN acc ELSE Append(acc, CHOOSE n \in w.out : TRUE),
                              w.kept)
             c == Fold(1, << >>, kept)
             keep == \/ node.role \in InteractiveRoles
                     \/ node.title \notin {None, ""}
                     \/ node.value \notin {None, ""}
                     \/ FrameUsable(node.frame)
             out == [role |-> node.role, title |-> node.title, value |-> node.value,
                     frame |-> node.frame]
         IN IF ~(keep \/ Len(c.outs) > 0) THEN [out |-> {}, kept |-> c.kept]
            ELSE [out |-> {IF Len(c.outs) > 0
                           THEN [role |-> node.role, title |-> node.title,
                                 value |-> node.value, frame |-> node.frame,
                                 children |-> c.outs]
                           ELSE out},
                  kept |-> c.kept + 1]

\* prune_ax_tree_for_prompt(tree); << >> is the empty dict
PruneAxTreeForPrompt(tree) ==
    LET w == Walk(tree, 0, 0, 120, 4)
    IN IF w.out = {} THEN << >> ELSE CHOOSE n \in w.out : TRUE

\* flatten_nodes_with_frames: the number of tags, ids are 1..n
RECURSIVE CountFramed(_)
CountFramed(node) ==
    LET kids == NodeChildren(node)
        RECURSIVE Sum(_)
        Sum(i) == IF i > Len(kids) THEN 0 ELSE CountFramed(kids[i]) + Sum(i + 1)
    IN (IF FrameUsable(node.frame) THEN 1 ELSE 0) + Sum(1)

\* trees get_active_window_tree may return (some node has a usable frame):
\* a window, the window with a zero-size button, the window retitled
AxTrees ==
    [plain |-> [role |-> "AXWindow", title |-> "Doc", value |-> None,
                frame |-> << 0, 0, 80, 60 >>],
     hidden |-> [role |-> "AXWindow", title |-> "Doc", value |-> None,
                 frame |-> << 0, 0, 80, 60 >>,
                 children |-> << [role |-> "AXButton", title |-> "OK", value |-> None,
                                  frame |-> << >>, raw_frame |-> << 5, 5, 0, 0 >>] >>],
     retitled |-> [role |-> "AXWindow", title |-> "Doc 2", value |-> None,
                   frame |-> << 0, 0, 80, 60 >>]]

\* Orchestrator._ax_changed
AxChanged(before, after) == \E b \in before, a \in after : b # a

\* Orchestrator._compute_changed
ComputeChanged(prev_frame, next_frame, hash_distance, ssim_score, ax_changed) ==
    IF ax_changed THEN TRUE
    ELSE IF \E s \in ssim_score : s < SsimChangeThreshold THEN TRUE
    ELSE IF hash_distance > PhashStaticThreshold THEN TRUE
    ELSE HasChanged(prev_frame, next_frame)

(***************************************************************************)
(* orchestrator.py: Orchestrator._run_session.                             *)
(*                                                                         *)
(* An action the cognitive core proposes is a dict; repr(action) is        *)
(* injective, so a signature is the name of the dict in Proposed.          *)
(* element_id 0 and skill_id << >> stand for a missing key.                 *)
(***************************************************************************)
\* str.lower on the key and application names in use
Lower(k) == CASE k = "C" -> "c" [] k = "Cmd" -> "cmd" [] k = "Safari" -> "safari" [] OTHER -> k

\* tuple(sorted([k.lower() for k in keys])); "c" < "cmd" < "space" in Python's order
Combo(keys) ==
    LET rep(k) == [i \in 1..Cardinality({j \in 1..Len(keys) : Lower(keys[j]) = k}) |-> k]
    IN rep("c") \o rep("cmd") \o rep("space")

\* global_hotkeys
GlobalHotkeys == {<< "cmd", "space" >>, << "command", "space" >>,
                  << "cmd", "tab" >>, << "command", "tab" >>}

\* a ledger that never remembers a dispatch
LedgerAlwaysEmpty(counts, key) == 0

\* hotkey_counts.get(key, 0); the dict is a function on the keys it holds
LedgerCount(counts, key) == IF key \in DOMAIN counts THEN counts[key] ELSE 0

ProposedAction ==
    [keys |-> << >>, element_id |-> 0, verify_after |-> TRUE, app_name |-> "",
     op |-> None, skill_id |-> << >>] @@ BaseAction

\* a left_click of the executor at (n, n)
ClickAt(n) == [ProposedAction EXCEPT !.type = "left_click", !.x = n, !.y = n]

Proposed ==
    [click_a |-> [ProposedAction EXCEPT !.type = "left_click", !.x = 1, !.y = 1],
     click_b |-> [ProposedAction EXCEPT !.type = "left_click", !.x = 2, !.y = 2],
     click_nv |-> [ProposedAction EXCEPT !.type = "left_click", !.x = 1, !.y = 1,
                                         !.verify_after = FALSE],
     click_zone |-> [ProposedAction EXCEPT !.type = "left_click", !.x = 15, !.y = 15],
     elem |-> [ProposedAction EXCEPT !.type = "left_click", !.element_id = 9],
     skill |-> [ProposedAction EXCEPT !.type = "run_skill", !.skill_id = << "undo" >>],
     note_add |-> [ProposedAction EXCEPT !.type = "notebook_op", !.op = "add_note"],
     note_bad |-> [ProposedAction EXCEPT !.type = "notebook_op", !.op = "bogus"],
     note_clear |-> [ProposedAction EXCEPT !.type = "notebook_op", !.op = "clear_notes"],
     wait |-> [ProposedAction EXCEPT !.type = "wait"],
     noop |-> [ProposedAction EXCEPT !.type = "noop"],
     llm_failed |-> [ProposedAction EXCEPT !.type = "noop"],
     open |-> [ProposedAction EXCEPT !.type = "open_app", !.app_name = "Safari"],
     k1 |-> [ProposedAction EXCEPT !.type = "key", !.keys = << "cmd", "c" >>],
     k2 |-> [ProposedAction EXCEPT !.type = "key", !.keys = << "C", "Cmd" >>],
     k3 |-> [ProposedAction EXCEPT !.type = "key", !.keys = << "c", "c", "cmd" >>],
     k1_nv |-> [ProposedAction EXCEPT !.type = "key", !.keys = << "cmd", "c" >>,
                                      !.verify_after = FALSE],
     ks |-> [ProposedAction EXCEPT !.type = "key", !.keys = << "cmd", "space" >>],
     wait_neg |-> [ProposedAction EXCEPT !.type = "wait", !.seconds = -1],
     macro_ab |-> [ProposedAction EXCEPT !.type = "macro_actions",
                                         !.actions = << ClickAt(1), ClickAt(2) >>],
     macro_nv |-> [ProposedAction EXCEPT !.type = "macro_actions", !.verify_after = FALSE,
                                         !.actions = << ClickAt(1), ClickAt(2) >>],
     macro_b |-> [ProposedAction EXCEPT !.type = "macro_actions",
                                        !.actions = << ClickAt(2) >>],
     macro_empty |-> [ProposedAction EXCEPT !.type = "macro_actions"],
     skill_macro |-> [ProposedAction EXCEPT !.type = "run_skill", !.skill_id = << "macro-a" >>]]

\* ReflectionResult of Reflector.evaluate_step
Verdict(is_complete, status) == [is_complete |-> is_complete, status |-> status]

\* Orchestrator._should_replan
ShouldReplan(p, st, lp) ==
    /\ HasCurrentStep(p)
    /\ \/ lp.repeat_same_action >= 3
       \/ lp.repeat_without_change >= 2
       \/ st.failure_count >= 3
       \/ p.steps[CurrentStepPos(p)].status = "failed"

\* Orchestrator._heuristic_step_complete
HeuristicStepComplete(step, a, result, changed) ==
    /\ result.success /\ changed
    /\ a.type \notin {"wait", "noop", "capture_only"}
    /\ step.status # "failed"
    /\ a.type \in {"left_click", "double_click", "right_click", "type", "scroll", "key",
                   "mouse_move", "open_app"}

\* an n-gram test that starts at k = 3
CycleDetectedFromThree(h) ==
    \E k \in 3..5 :
        /\ Len(h) >= 2 * k
        /\ SubSeq(h, Len(h) - k + 1, Len(h)) = SubSeq(h, Len(h) - 2 * k + 1, Len(h) - k)

\* the n-gram test on action_sig_history
CycleDetected(h) ==
    \E k \in 2..5 :
        /\ Len(h) >= 2 * k
        /\ SubSeq(h, Len(h) - k + 1, Len(h)) = SubSeq(h, Len(h) - 2 * k + 1, Len(h) - k)

\* json.loads of a coordinate of a stored sub-action
FromJson(text) == CHOOSE n \in 0..50 : ToString(n) = text

\* the dict a stored sub-action is loaded as
ActionOfDict(d) ==
    [ProposedAction EXCEPT !.type = d[1][2], !.x = FromJson(d[2][2]), !.y = FromJson(d[3][2])]

\* lines 175-180: the macro_actions built from a stored skill; the keys of
\* the run_skill action (verify_after among them) are not copied
SkillMacro(skill) ==
    [ProposedAction EXCEPT !.type = "macro_actions", !.skill_id = skill.id,
                           !.actions = [i \in 1..Len(skill.actions) |->
                                           ActionOfDict(skill.actions[i])]]

\* lines 162-180: the action that goes on to the router
RoutedAction(a, store) ==
    IF a.type = "run_skill" /\ GetSkill(store, a.skill_id) # NoSkill
    THEN SkillMacro(GetSkill(store, a.skill_id))
    ELSE a

\* an early part without the notebook branch: a notebook_op goes on to the
\* ledger and the router
EarlyResultWithoutNotebook(a, lp, ntags) ==
    IF a.type = "run_skill" /\ GetSkill(sk.store, a.skill_id) = NoSkill
    THEN {Result(FALSE, "skill not found")}
    ELSE IF ~(HasPoint(a) \/ a.element_id = 0 \/ a.element_id \in 1..ntags)
    THEN {Result(FALSE, "element_id not found")}
    ELSE {}

\* The part of an iteration that ends in "continue" before the router is
\* called: the ActionResult recorded, or nothing.  ntags is the number of
\* overlay tags.
EarlyResult(a, lp, ntags) ==
    IF a.type = "run_skill" /\ GetSkill(sk.store, a.skill_id) = NoSkill
    THEN {Result(FALSE, "skill not found")}
    ELSE IF ~(HasPoint(a) \/ a.element_id = 0 \/ a.element_id \in 1..ntags)
    THEN {Result(FALSE, "element_id not found")}
    ELSE IF a.type = "notebook_op"
    THEN {IF a.op = "add_note" THEN Result(TRUE, "note added")
          ELSE IF a.op = "clear_notes" THEN Result(TRUE, "notes cleared")
          ELSE Result(FALSE, "unknown notebook op")}
    ELSE IF a.type = "key" /\ LedgerCount(lp.hotkey_counts, Combo(a.keys)) >= 2
    THEN {Result(FALSE, "hotkey deduped")}
    ELSE IF a.type = "open_app"
            /\ LedgerCount(lp.hotkey_counts, << "open_app", Lower(a.app_name) >>) >= 1
    THEN {Result(FALSE, "app open deduped")}
    ELSE {}

\* the rule files of the router runs: the defaults and one exclusion zone
RouterZones == << [x |-> 10, y |-> 10, w |-> 10, h |-> 10, label |-> "password field"] >>
RouterRules == [DefaultRules EXCEPT !.exclusion_zones = RouterZones]
MacRouterRules == [MacDefaultRules EXCEPT !.exclusion_zones = RouterZones]

MacEnv(fail) ==
    [platform |-> "macos", rules |-> MacRouterRules, allow_env |-> {}, fail |-> fail,
     enable_semantic |-> TRUE, ax_node |-> FALSE, cyborg |-> FALSE, cdp_down |-> FALSE,
     foreground |-> None, title |-> None, page_url |-> << >>, clipboard |-> << >>]

WinEnv(fail, sem, node, cyborg) ==
    [platform |-> "windows", rules |-> RouterRules, allow_env |-> {}, fail |-> fail,
     enable_semantic |-> sem, ax_node |-> node, cyborg |-> cyborg, cdp_down |-> TRUE,
     foreground |-> "chrome.exe", title |-> "chrome", page_url |-> << "bank", "com" >>,
     clipboard |-> << >>]

IdleRt ==
    [phase |-> "idle", env |-> MacEnv({}), action |-> BaseAction,
     result |-> Result(TRUE, ""), events |-> << >>]

IdlePlan == MkPlan("uuid", FallbackSteps, 0)
IdlePol ==
    [phase |-> "idle", engine |-> "core", rules |-> DefaultRules, allow_env |-> {},
     action |-> BaseAction, decision |-> Allow]
PlanIdle == plan = IdlePlan /\ plan_ops = 0
PolIdle == pol = IdlePol
RtIdle == rt = IdleRt
SkIdle == sk = IdleSk

\* The tasks that share one memory root: where each stands, the id of its
\* plan, and the arguments and the lookup result of the store call it is in
Tasks == {1, 2}

NoCall == [name |-> "", description |-> "", tags |-> {}, actions |-> << >>, found |-> NoSkill]

IdleTasks == [t \in Tasks |-> [pc |-> "idle", plan_id |-> "", call |-> NoCall]]

TasksIdle == tasks = IdleTasks

\* The process of the command line: where it stands, its --adapter
\* argument, CUA_ADAPTER, platform.system(), the adapter packages that can
\* be imported and those with a create_computer, the permissions granted,
\* whether enable_hid or enable_semantic is set, the prompts read, the
\* tasks completed, what the running task has done, the errors logged, how
\* the process ended and its exit code (-1 while it runs)
IdleCli ==
    [pc |-> "idle", adapter |-> None, env |-> None, system |-> "Darwin",
     importable |-> {}, factories |-> {}, perms |-> {}, needs_ax |-> FALSE,
     prompts |-> 0, tasks_done |-> 0, task_events |-> << >>, errors |-> << >>,
     last |-> "", exit |-> -1]

CliIdle == cli = IdleCli

\* a guard that calls revise_plan whatever is left of the replan budget
ReplanWithoutBudget(c, p, st, lp, out) ==
    IF ShouldReplan(p, st, lp)
    THEN LET revised == RevisePlan(c.planner, p, out)
         IN [plan |-> revised, asked |-> TRUE, differs |-> revised # p,
             state |-> IF revised # p THEN Said(st, "plan_revised") ELSE st,
             loop |-> [lp EXCEPT !.plan_revision_count = IF revised # p THEN @ + 1 ELSE @,
                                 !.repeat_same_action = 0,
                                 !.repeat_without_change = 0,
                                 !.last_action_sig = None]]
    ELSE [plan |-> p, asked |-> FALSE, differs |-> FALSE, state |-> st, loop |-> lp]

\* The guarded revise_plan at the top of an iteration: the plan, the
\* StateManager and the locals after it, whether revise_plan was called and
\* whether what it returned differs from the plan
Replan(c, p, st, lp, out) ==
    IF lp.plan_revision_count < MaxPlanRevisions /\ ShouldReplan(p, st, lp)
    THEN LET revised == RevisePlan(c.planner, p, out)
         IN [plan |-> revised, asked |-> TRUE, differs |-> revised # p,
             state |-> IF revised # p THEN Said(st, "plan_revised") ELSE st,
             loop |-> [lp EXCEPT !.plan_revision_count = IF revised # p THEN @ + 1 ELSE @,
                                 !.repeat_same_action = 0,
                                 !.repeat_without_change = 0,
                                 !.last_action_sig = None]]
    ELSE [plan |-> p, asked |-> FALSE, differs |-> FALSE, state |-> st, loop |-> lp]

\* the status of every step of a plan
Statuses(p) == [i \in 1..Len(p.steps) |-> p.steps[i].status]

\* the status of plan.current_step(), "none" when there is no current step
CurrentStatus(p) == IF HasCurrentStep(p) THEN p.steps[CurrentStepPos(p)].status ELSE "none"

\* what a pass records of stuck recovery when no break is pending
NoStuck ==
    [reason |-> "", step |-> "none", hint_asked |-> FALSE, hint |-> FALSE,
     revise_asked |-> FALSE, differs |-> FALSE, went_on |-> FALSE,
     proposed_pos |-> 0, failed_pos |-> 0, named |-> {}, marked |-> {}]

\* dict(a) of a sub-action of a macro as the skill file holds it: the pairs
\* of its keys and the JSON text of their values
ActionDict(a) == << << "type", a.type >>, << "x", ToString(a.x) >>, << "y", ToString(a.y) >> >>

\* a _maybe_save_skill that saves whatever action ran with success and a
\* changed screen
MaybeSaveSkillAnyAction(s, a, result, p, pos, changed) ==
    LET acts == IF a.type = "macro_actions" THEN a.actions ELSE << a >>
        r == SaveSkill(s.store, s.ids, s.clock, "macro-a", "criteria",
                       [i \in 1..Len(acts) |-> ActionDict(acts[i])], {"macro"}, TRUE)
    IN IF ~result.success \/ ~changed
       THEN [sk |-> s, called |-> FALSE, raised |-> FALSE]
       ELSE [sk |-> [s EXCEPT !.store = r.store, !.ids = r.ids, !.clock = @ + 1],
             called |-> TRUE, raised |-> r.raised]

\* Orchestrator._maybe_save_skill: the skill store after it, whether
\* save_skill was called and whether it raised (the ValueError of an empty
\* action list is logged and swallowed).  The name is the slug of a text
\* of the step or of the prompt; the texts are not modelled and one name and
\* one description stand for them.  A step whose id is 0 gives no step tag.
MaybeSaveSkill(s, a, result, p, pos, changed) ==
    LET tags == IF pos # 0 /\ p.steps[pos].id # 0
                THEN {"macro", "step:" \o ToString(p.steps[pos].id)} ELSE {"macro"}
        r == SaveSkill(s.store, s.ids, s.clock, "macro-a", "criteria",
                       [i \in 1..Len(a.actions) |-> ActionDict(a.actions[i])], tags, TRUE)
    IN IF a.type # "macro_actions" \/ ~result.success \/ ~changed
       THEN [sk |-> s, called |-> FALSE, raised |-> FALSE]
       ELSE [sk |-> [s EXCEPT !.store = r.store, !.ids = r.ids, !.clock = @ + 1],
             called |-> TRUE, raised |-> r.raised]

\* One pass through the body of "while not state.should_halt()" is Begin,
\* Route, Observe, Reflect, Recover in turn.  Each takes and returns the
\* frame of the pass: the settings c, the answers inp of the environment,
\* the action a, the plan, the StateManager, the locals, current_step (pos),
\* how the pass ends (path, pc) and the record rec of what it did.

\* lines 105-146: the check, the replanning guard, the tree and the action
Begin(c, p0, st0, lp0, inp) ==
    LET top == Replan(c, p0, st0, [lp0 EXCEPT !.elapsed = inp.now], inp.out1)
    IN [c |-> c, inp |-> inp, a |-> Proposed[inp.a], plan |-> top.plan,
        state |-> [top.state EXCEPT
                     !.history = CompressHistory(@, c.planner /\ inp.out1.ok)],
        loop |-> top.loop, pos |-> CurrentStepPos(top.plan), sk |-> sk,
        ax_tree |-> IF c.enable_semantic THEN {PruneAxTreeForPrompt(t) : t \in inp.tb}
                    ELSE {},
        path |-> "executed", pc |-> "loop", result |-> Result(TRUE, ""), changed |-> FALSE,
        rec |-> [a |-> inp.a,
                 top |-> [steps |-> st0.steps, failure_count |-> st0.failure_count,
                          elapsed |-> inp.now,
                          repeat_same_action |-> lp0.repeat_same_action,
                          repeat_without_change |-> lp0.repeat_without_change,
                          revisions |-> lp0.plan_revision_count,
                          hints |-> lp0.hint_count,
                          hotkey_counts |-> lp0.hotkey_counts,
                          step |-> CurrentStatus(p0)],
                 replan |-> [asked |-> top.asked, differs |-> top.differs,
                             kept |-> top.plan = p0,
                             repeat_same_action |-> top.loop.repeat_same_action,
                             repeat_without_change |-> top.loop.repeat_without_change,
                             last_action_sig |-> top.loop.last_action_sig,
                             revisions |-> top.loop.plan_revision_count],
                 routed |-> FALSE, drivers |-> 0, success |-> FALSE, reason |-> "",
                 raised |-> "", interrupted |-> FALSE,
                 verify |-> FALSE, frame_same |-> FALSE, tree_same |-> FALSE,
                 seen |-> [prev |-> {}, next |-> {}, tb |-> {}, ta |-> {}],
                 usage |-> [found |-> FALSE, id |-> << >>, before |-> 0],
                 changed |-> FALSE, completed |-> FALSE,
                 stuck |-> NoStuck,
                 calls |-> << Statuses(top.plan) >>,
                 type |-> Proposed[inp.a].type,
                 skill |-> [called |-> FALSE, raised |-> FALSE, before |-> sk.store,
                            after |-> sk.store]]]

\* lines 158-233: break on noop, the early continues, the ledger and the
\* router; ex is what ActionEngine.execute(action) gives when it is called
Route(x, ex) ==
    LET ntags == IF \E t \in x.ax_tree : t # << >>
                 THEN CountFramed(CHOOSE t \in x.ax_tree : TRUE) ELSE 0
        early == EarlyResult(x.a, x.loop, ntags)
        res == CHOOSE r \in early : TRUE
        combo == Combo(x.a.keys)
        noted == IF x.a.type = "notebook_op" /\ early = {Result(TRUE, "note added")}
                 THEN AddNote(x.state)
                 ELSE IF x.a.type = "notebook_op" /\ early = {Result(TRUE, "notes cleared")}
                 THEN ClearNotebook(x.state)
                 ELSE x.state
        skill == GetSkill(x.sk.store, x.a.skill_id)
        found == x.a.type = "run_skill" /\ skill # NoSkill
        used == RecordUsage(x.sk.store, x.sk.clock, skill.id, TRUE)
        usage == [found |-> found, id |-> skill.id, before |-> skill.usage_count]
        sk1 == IF found THEN [x.sk EXCEPT !.store = used.store, !.clock = @ + 1] ELSE x.sk
        counted == IF x.a.type = "key"
                   THEN (combo :> (LedgerCount(x.loop.hotkey_counts, combo) + 1))
                        @@ x.loop.hotkey_counts
                   ELSE IF x.a.type = "open_app"
                   THEN (<< "open_app", Lower(x.a.app_name) >> :> 1) @@ x.loop.hotkey_counts
                   ELSE x.loop.hotkey_counts
    IN IF x.a.type = "noop" THEN [x EXCEPT !.path = "noop", !.pc = "done"]
       ELSE IF early # {}
       THEN [x EXCEPT !.path = "skipped", !.state = RecordAction(noted, res),
                      !.rec.success = res.success, !.rec.reason = res.reason]
       ELSE IF ex.res.raised
       THEN [x EXCEPT !.path = "raised", !.pc = "raised",
                      !.a = RoutedAction(@, x.sk.store), !.sk = sk1,
                      !.loop.hotkey_counts = counted,
                      !.rec.usage = usage,
                      !.rec.skill = [@ EXCEPT !.before = sk1.store, !.after = sk1.store],
                      !.rec.routed = TRUE, !.rec.drivers = ex.r.calls,
                      !.rec.raised = "execute", !.rec.reason = ex.res.reason]
       ELSE [x EXCEPT
               !.a = RoutedAction(@, x.sk.store), !.sk = sk1,
               !.loop.hotkey_counts = counted,
               !.rec.usage = usage,
               !.rec.skill = [@ EXCEPT !.before = sk1.store, !.after = sk1.store],
               !.result = ex.res,
               !.state = RecordAction(@, ex.res),
               !.rec.routed = TRUE, !.rec.drivers = ex.r.calls,
               !.rec.success = ex.res.success, !.rec.reason = ex.res.reason]

\* a change test that runs the detector whatever verify_after says
ChangedAlwaysVerified(verify, prev, next, hash_distance, ssim_score, ax_changed) ==
    ComputeChanged(prev, next, hash_distance, ssim_score, ax_changed)

\* lines 261-281: changed, from the detector or assumed (optimistic mode)
Changed(verify, prev, next, hash_distance, ssim_score, ax_changed) ==
    IF verify
    THEN ComputeChanged(prev, next, hash_distance, ssim_score, ax_changed)
    ELSE TRUE

\* lines 242-316: the next frame, changed, the ledger, the streak, the signature
Observe(x) ==
    LET verify == x.a.verify_after
        prev == x.loop.frame
        next == x.inp.frame
        hash_distance == HashDistance(prev, next)
        ax_changed == AxChanged(x.ax_tree,
                                IF verify /\ x.c.enable_semantic THEN x.inp.ta ELSE {})
        changed == Changed(verify, prev, next, hash_distance,
                           StructuralSimilarity(x.c.skimage, prev, next), ax_changed)
        saved == MaybeSaveSkill(x.sk, x.a, x.result, x.plan, x.pos, changed)
    IN IF x.path # "executed" THEN x
       ELSE [x EXCEPT
               !.changed = changed,
               !.state = RecordObservation(@),
               !.loop.hotkey_counts = IF changed THEN << >> ELSE @,
               !.loop.low_change_streak =
                   IF /\ verify /\ hash_distance <= PhashStaticThreshold /\ ~ax_changed
                      /\ x.a.type \notin {"wait", "capture_only", "noop"}
                   THEN @ + 1 ELSE 0,
               !.loop.action_sig_history = Append(@, x.inp.a),
               !.rec.verify = verify,
               !.rec.frame_same = next = prev,
               !.rec.tree_same = x.c.enable_semantic /\ x.inp.tb # {} /\ x.inp.tb = x.inp.ta,
               !.rec.seen = [prev |-> prev, next |-> next,
                             tb |-> IF x.c.enable_semantic THEN x.inp.tb ELSE {},
                             ta |-> IF verify /\ x.c.enable_semantic THEN x.inp.ta ELSE {}],
               !.rec.changed = changed,
               !.sk = saved.sk,
               !.rec.skill = [called |-> saved.called, raised |-> saved.raised,
                              before |-> x.sk.store, after |-> saved.sk.store]]

\* lines 318-369: the reflector or the heuristic, advance, break when the
\* plan is done.  A "failed" verdict ends in current_step.recovery_steps,
\* an attribute Step does not have: AttributeError leaves the loop.
Reflect(x) ==
    LET verdict == x.inp.verdict
        step_completed ==
            IF x.c.reflector THEN verdict.is_complete
            ELSE /\ ~x.c.strict
                 /\ HeuristicStepComplete(x.plan.steps[x.pos], x.a, x.result, x.changed)
        advanced == Advance(x.plan)
        failed == FailCurrent(x.plan, "Reflector blocked")
    IN IF x.path # "executed" \/ x.pos = 0 THEN x
       ELSE IF x.c.reflector /\ verdict.status = "failed"
       THEN [x EXCEPT !.path = "raised", !.pc = "raised", !.plan = failed,
                      !.state = Said(@, "reflector_fail"),
                      !.rec.raised = "reflect",
                      !.rec.calls = Append(@, Statuses(failed))]
       ELSE IF step_completed
       THEN [x EXCEPT !.plan = advanced,
                      !.state = Said(@, "plan_step_completed"),
                      !.loop.hotkey_counts = << >>,
                      !.pc = IF HasCurrentStep(advanced) THEN "loop" ELSE "done",
                      !.rec.completed = TRUE,
                      !.rec.calls = Append(@, Statuses(advanced))]
       ELSE x

\* a break test that leaves out the repeat_without_change threshold
BreakReasonWithoutChangeTest(cycle_detected, rsa, rwc, stagnant) ==
    IF cycle_detected THEN "oscillatory_loop"
    ELSE IF rsa >= 3 THEN "repeat_same_action:3"
    ELSE IF stagnant THEN "visual_stagnation"
    ELSE ""

\* lines 371-401: break_reason of the pending break, "" when none is pending
BreakReason(cycle_detected, rsa, rwc, stagnant) ==
    IF cycle_detected THEN "oscillatory_loop"
    ELSE IF rsa >= 3 THEN "repeat_same_action:3"
    ELSE IF rwc >= 2 THEN "repeat_without_change"
    ELSE IF stagnant THEN "visual_stagnation"
    ELSE ""

\* lines 371-468: repeats, stagnation, stuck recovery, the tail of the body
Recover(x) ==
    LET lp == x.loop
        cycle_detected == CycleDetected(lp.action_sig_history)
        same == x.inp.a = lp.last_action_sig /\ x.a.type # "wait" /\ ~cycle_detected
        rsa == IF same THEN lp.repeat_same_action + 1 ELSE 0
        rwc == IF same /\ ~x.changed THEN lp.repeat_without_change + 1 ELSE 0
        stagnant == /\ ~cycle_detected /\ rsa < 3 /\ rwc < 2
                    /\ lp.low_change_streak >= StagnationLimit
        break_reason == BreakReason(cycle_detected, rsa, rwc, stagnant)
        st1 == IF stagnant THEN Said(x.state, "visual_stagnation") ELSE x.state
        st2 == IF x.a.type = "key" /\ Combo(x.a.keys) \in GlobalHotkeys /\ ~x.changed
               THEN Said(st1, "global_hotkey_no_effect") ELSE st1
        failed == IF x.pos # 0 THEN FailCurrent(x.plan, "stuck") ELSE x.plan
        st3 == RecordStuck(IF x.pos # 0 THEN Said(st2, "plan_step_failed") ELSE st2,
                           break_reason)
        hint_asked == x.c.reflector /\ lp.hint_count < MaxHints
        hinted == hint_asked /\ x.inp.hint
        st4 == IF hinted THEN Said(st3, "reflector_hint") ELSE st3
        revise_asked == lp.plan_revision_count < MaxPlanRevisions
        revised == IF revise_asked THEN RevisePlan(x.c.planner, failed, x.inp.out2)
                   ELSE failed
        st5 == IF revised # failed THEN Said(st4, "plan_revised") ELSE st4
        go_on == hinted \/ revised # failed
    IN IF x.path # "executed" \/ x.pc # "loop" THEN x
       ELSE IF break_reason # ""
       THEN [x EXCEPT
               !.plan = revised,
               !.state = st5,
               !.pc = IF go_on THEN "loop" ELSE "done",
               !.loop = [lp EXCEPT
                           !.hint_count = IF hinted THEN @ + 1 ELSE @,
                           !.plan_revision_count = IF revised # failed THEN @ + 1 ELSE @,
                           !.repeat_same_action = 0,
                           !.repeat_without_change = 0,
                           !.last_action_sig = None,
                           !.low_change_streak = 0,
                           !.frame = IF go_on THEN x.inp.frame ELSE @],
               !.rec.stuck = [reason |-> break_reason, step |-> CurrentStatus(failed),
                              hint_asked |-> hint_asked, hint |-> hinted,
                              revise_asked |-> revise_asked, differs |-> revised # failed,
                              went_on |-> go_on,
                              proposed_pos |-> x.pos,
                              failed_pos |-> IF x.pos # 0 THEN CurrentStepPos(x.plan) ELSE 0,
                              named |-> IF x.pos # 0 THEN {x.plan.steps[x.pos].id} ELSE {},
                              marked |-> IF x.pos # 0 /\ HasCurrentStep(x.plan)
                                         THEN {x.plan.steps[CurrentStepPos(x.plan)].id}
                                         ELSE {}],
               !.rec.calls = IF x.pos # 0 THEN Append(@, Statuses(failed)) ELSE @]
       ELSE [x EXCEPT !.state = st2,
                      !.loop = [lp EXCEPT !.repeat_same_action = rsa,
                                          !.repeat_without_change = rwc,
                                          !.last_action_sig = x.inp.a,
                                          !.frame = x.inp.frame]]

Body(c, p0, st0, lp0, inp) ==
    Recover(Reflect(Observe(
        Route(Begin(c, p0, st0, lp0, inp),
              Execute(MacEnv(inp.fail), RoutedAction(Proposed[inp.a], sk.store), << 1 >>,
                      [events |-> << >>, calls |-> 0])))))

\* _run_session before its first iteration
IdleLoop ==
    [pc |-> "idle", elapsed |-> 0, frame |-> {}, last_action_sig |-> None,
     action_sig_history |-> << >>, repeat_without_change |-> 0, repeat_same_action |-> 0,
     hotkey_counts |-> << >>, hint_count |-> 0, plan_revision_count |-> 0,
     low_change_streak |-> 0]

\* Settings and the environment of a session: the limits and switches of
\* Settings, whether the reflector, the planner and skimage are there, and
\* what the cognitive core (acts), the drivers (fails), the screen (frames),
\* the accessibility API (trees), the reflector (verdicts, hints) and the
\* planner (outs) may answer.
DefaultSession ==
    [name |-> "default", max_steps |-> 4, max_failures |-> 5, max_wall |-> {},
     enable_semantic |-> FALSE, strict |-> TRUE, reflector |-> FALSE, planner |-> FALSE,
     skimage |-> TRUE, acts |-> {"click_a"}, fails |-> {{}}, frames |-> {{}},
     trees |-> {{}}, verdicts |-> {Verdict(FALSE, "incomplete")}, hints |-> {FALSE},
     interrupts |-> FALSE,
     outs |-> {[ok |-> FALSE, id |-> "plan-a", statuses |-> << >>, idx |-> 0]}]

Sessions ==
    { [DefaultSession EXCEPT !.name = "failures", !.max_failures = 2,
         !.acts = {"click_a", "click_zone", "elem", "skill", "note_add", "note_bad"},
         !.fails = {{}, {1}}],
      [DefaultSession EXCEPT !.name = "wall clock", !.max_failures = 0, !.max_wall = {2},
         !.strict = FALSE,
         !.acts = {"click_a", "wait", "wait_neg", "noop", "llm_failed"},
         !.frames = {{}, {1}}, !.interrupts = TRUE],
      [DefaultSession EXCEPT !.name = "no limits", !.max_steps = 0, !.max_failures = 0,
         !.acts = {"elem", "click_a", "open"}, !.frames = {{}, {1, 2}}],
      [DefaultSession EXCEPT !.name = "hotkeys", !.max_steps = 5,
         !.acts = {"k1", "k2", "k3"}, !.frames = {{}, {1, 2}}],
      [DefaultSession EXCEPT !.name = "optimistic hotkeys",
         !.acts = {"k1", "k1_nv", "open"}, !.frames = {{}, {1, 2}}],
      [DefaultSession EXCEPT !.name = "hotkeys and steps", !.reflector = TRUE,
         !.acts = {"k1"}, !.fails = {{}, {1}},
         !.verdicts = {Verdict(TRUE, "success"), Verdict(FALSE, "incomplete")}],
      [DefaultSession EXCEPT !.name = "semantic", !.max_steps = 2, !.enable_semantic = TRUE,
         !.skimage = FALSE, !.acts = {"click_a", "click_nv"}, !.frames = {{}, {1}},
         !.trees = {{}} \cup {{AxTrees[n]} : n \in DOMAIN AxTrees}],
      [DefaultSession EXCEPT !.name = "reflector", !.reflector = TRUE,
         !.acts = {"click_a", "click_b"}, !.frames = {{}, {1, 2}},
         !.verdicts = {Verdict(TRUE, "success"), Verdict(FALSE, "incomplete"),
                       Verdict(FALSE, "failed")},
         !.hints = BOOLEAN],
      [DefaultSession EXCEPT !.name = "global hotkey", !.max_steps = 6, !.reflector = TRUE,
         !.acts = {"ks"}, !.hints = BOOLEAN],
      [DefaultSession EXCEPT !.name = "exhaustion", !.max_steps = 9, !.reflector = TRUE,
         !.planner = TRUE, !.hints = BOOLEAN,
         !.outs = {[ok |-> FALSE, id |-> "plan-a", statuses |-> << >>, idx |-> 0]}
                  \cup [ok : {TRUE}, id : PlanIds, statuses : {<< >>}, idx : {0, 1}]],
      [DefaultSession EXCEPT !.name = "macros", !.max_steps = 3,
         !.acts = {"macro_ab", "macro_nv", "macro_b", "macro_empty", "click_a"},
         !.fails = {{}, {2}}, !.frames = {{}, {1}}],
      [DefaultSession EXCEPT !.name = "notebook", !.max_steps = 5, !.planner = TRUE,
         !.acts = {"note_add", "note_bad", "note_clear", "noop", "k1"},
         !.outs = {[ok |-> FALSE, id |-> "plan-a", statuses |-> << >>, idx |-> 0]}
                  \cup [ok : {TRUE}, id : PlanIds, statuses : {<< >>}, idx : {0, 1}]],
      [DefaultSession EXCEPT !.name = "skills", !.max_steps = 3,
         !.acts = {"macro_ab", "skill_macro", "skill"},
         !.fails = {{}, {2}}, !.frames = {{}, {1}}],
      [DefaultSession EXCEPT !.name = "planner", !.planner = TRUE,
         !.outs = {[ok |-> FALSE, id |-> "plan-a", statuses |-> << >>, idx |-> 0]}
                  \cup [ok : {TRUE}, id : PlanIds, statuses : {<< >>}, idx : {0, 1}]] }

SessionIdle ==
    /\ cfg = DefaultSession
    /\ state = NewState
    /\ loop = IdleLoop
    /\ trace = << >>
    /\ fs = << >>


InitPlan ==
    /\ plan \in {MakePlan(c, out) : c \in BOOLEAN, out \in PlannerOutputs}
    /\ plan_ops = 0
    /\ PolIdle
    /\ RtIdle
    /\ SkIdle
    /\ SessionIdle
    /\ TasksIdle
    /\ CliIdle

PlanAdvance ==
    /\ plan_ops < MaxPlanOps
    /\ plan' = Advance(plan)
    /\ plan_ops' = plan_ops + 1
    /\ UNCHANGED nonPlan

PlanFailCurrent ==
    /\ plan_ops < MaxPlanOps
    /\ plan' = FailCurrent(plan, "note")
    /\ plan_ops' = plan_ops + 1
    /\ UNCHANGED nonPlan

PlanRevise ==
    /\ plan_ops < MaxPlanOps
    /\ \E c \in BOOLEAN, out \in PlannerOutputs : plan' = RevisePlan(c, plan, out)
    /\ plan_ops' = plan_ops + 1
    /\ UNCHANGED nonPlan

NextPlan == PlanAdvance \/ PlanFailCurrent \/ PlanRevise

SpecPlan == InitPlan /\ [][NextPlan]_vars

(***************************************************************************)
(* SpecPolicy: one action dict is evaluated by one engine under one rule   *)
(* file.  "windows_router" is the outcome the Windows ActionEngine reports *)
(* for the action: _requires_hitl first, then WindowsPolicyEngine.         *)
(***************************************************************************)
CustomRules ==
    [blocked_actions |-> {"shell_command", "erase_disk"},
     blocked_bundle_ids |-> {"com.apple.keychainaccess", "keepass.exe"},
     hitl_actions |-> {"format_disk", "run_javascript", "sandbox_shell"},
     sensitive_domains |-> {<< "bank", "com" >>},
     allowed_shell_basenames |-> {"ls", "git"},
     exclusion_zones |->
        << [x |-> 10, y |-> 10, w |-> 10, h |-> 10, label |-> "password field"],
           [x |-> 15, y |-> 15, w |-> 10, h |-> 10, label |-> "vault"] >>]

\* the action dicts handed to evaluate: pointer, shell, browser and other
\* actions over a few points, bundle ids, command lines and hosts
PolicyActions ==
    LET Points == {<< NoCoord, NoCoord >>, << 9, 15 >>, << 10, 10 >>, << 20, 20 >>, << 25, 26 >>}
        Bundles == {None, "com.apple.keychainaccess", "keepass.exe", "consent.exe"}
        Commands ==
            {<< >>, << "ls" >>, << "'ls" >>, << "git", "push" >>, << "git", "status" >>,
             << "echo", "rm", "-rf" >>, << "rm", "-rf" >>, << "run.ps1" >>, << "nope" >>}
        Hosts == {<< >>, << "bank", "com" >>, << "www", "bank", "com" >>, << "notbank", "com" >>}
    IN {[BaseAction EXCEPT !.type = t, !.x = p[1], !.y = p[2],
                           !.target_x = q[1], !.target_y = q[2], !.bundle_id = b] :
           t \in {"left_click", "drag_and_drop"}, p \in Points, q \in Points, b \in Bundles}
       \cup
       {[BaseAction EXCEPT !.type = "sandbox_shell", !.execution = "shell", !.cmd = c,
                           !.command = k, !.x = p[1], !.y = p[2], !.bundle_id = b] :
           c \in Commands, k \in {None, "shell_command"},
           p \in {<< NoCoord, NoCoord >>, << 10, 10 >>}, b \in Bundles}
       \cup
       {[BaseAction EXCEPT !.type = "browser_op", !.execution = "browser", !.command = k,
                           !.value = v, !.url = h, !.bundle_id = b] :
           k \in {"run_javascript", "navigate"}, v \in JsPayloads, h \in Hosts,
           b \in {None, "keepass.exe"}}
       \cup
       {[BaseAction EXCEPT !.type = t, !.command = k, !.bundle_id = b] :
           t \in {"erase_disk", "shell_command", "key", "format_disk"},
           k \in {None, "format_disk", "shell_command"}, b \in Bundles}

\* the decision the caller of the engine sees
EngineDecision(engine, rules, allow_env, a) ==
    CASE engine = "core" -> CoreEvaluate(rules, a)
      [] engine = "mac" -> MacEvaluate(rules, a)
      [] engine = "windows" -> WindowsEvaluate(rules, allow_env, a)
      [] engine = "windows_router" ->
            IF RequiresHitl(a) THEN Hitl("human confirmation required", None)
            ELSE WindowsEvaluate(rules, allow_env, a)

InitPolicy ==
    /\ PlanIdle
    /\ RtIdle
    /\ SkIdle
    /\ SessionIdle
    /\ TasksIdle
    /\ CliIdle
    /\ \E e \in {"core", "mac", "windows", "windows_router"},
             r \in {DefaultRules, CustomRules}, env \in {{}, {"echo"}}, a \in PolicyActions :
          pol = [phase |-> "proposed", engine |-> e, rules |-> r, allow_env |-> env,
                 action |-> a, decision |-> Allow]

PolicyEvaluate ==
    /\ pol.phase = "proposed"
    /\ pol' = [pol EXCEPT !.phase = "decided",
                          !.decision = EngineDecision(pol.engine, pol.rules,
                                                      pol.allow_env, pol.action)]
    /\ UNCHANGED nonPol

NextPolicy == PolicyEvaluate

SpecPolicy == InitPolicy /\ [][NextPolicy]_vars

\* C4: in every reachable plan state at most one step is in_progress.
C4_AtMostOneInProgress == Cardinality(InProgressPositions(plan)) <= 1

\* C6: current_step_index is the index of the unique in_progress step, or
\* len(steps) when the plan is complete (so current_step() is never a failed,
\* done or pending step).
C6_IndexAtInProgress ==
    \/ plan.idx = Len(plan.steps) /\ InProgressPositions(plan) = {}
    \/ HasCurrentStep(plan) /\ InProgressPositions(plan) = {plan.idx + 1}

(***************************************************************************)
(* SpecRouter: one action is handed to the router of one platform, either  *)
(* directly (orchestrator line 232) or as the macro the orchestrator       *)
(* builds for run_skill (lines 162-180).                                   *)
(***************************************************************************)
\* the action dicts of the router runs, by name
Act ==
    [click_ok |-> [BaseAction EXCEPT !.type = "left_click", !.x = 50, !.y = 50],
     click_zone |-> [BaseAction EXCEPT !.type = "left_click", !.x = 10, !.y = 10],
     click_hinted |-> [BaseAction EXCEPT !.type = "left_click", !.x = 10, !.y = 10,
                                         !.phantom_mode = "true", !.semantic_label = "OK"],
     erase_disk |-> [BaseAction EXCEPT !.type = "erase_disk"],
     shell_ls |-> [BaseAction EXCEPT !.type = "sandbox_shell", !.execution = "shell",
                                     !.cmd = << "ls" >>],
     shell_rm |-> [BaseAction EXCEPT !.type = "sandbox_shell", !.execution = "shell",
                                     !.cmd = << "rm", "-rf" >>],
     navigate |-> [BaseAction EXCEPT !.type = "browser_op", !.execution = "browser",
                                     !.command = "navigate"],
     run_js |-> [BaseAction EXCEPT !.type = "browser_op", !.execution = "browser",
                                   !.command = "run_javascript", !.value = "alert(1)"],
     clip_read |-> [BaseAction EXCEPT !.type = "clipboard_op", !.sub_action = "read"],
     nested |-> [BaseAction EXCEPT !.type = "macro_actions"]]

RouterLeaves == {Act[n] : n \in DOMAIN Act \ {"nested"}}

\* sandbox_shell actions with the command lines of git, rm and ls
ShellActs ==
    {[BaseAction EXCEPT !.type = "sandbox_shell", !.execution = "shell", !.cmd = c] :
        c \in {<< "git" >>, << "git", "status" >>, << "git", "push" >>,
               << "git", "--no-pager", "push" >>, << "git", "--no-pager", "status" >>,
               << "rm", "-rf" >>, << "ls", "-v" >>, << "'ls" >>, << "nope" >>, << >>}}

MacroOf(acts) == [BaseAction EXCEPT !.type = "macro_actions", !.actions = acts]

\* the actions proposed to the router: the leaves, every macro of at most
\* MaxMacroLen sub-actions, longer macros with the first failing sub-action
\* in every position, and run_skill for a stored skill (value "found", the
\* stored action list in actions) or for none (SkillStore.get_skill is None)
TopActions ==
    LET SubActionLists == UNION { [1..n -> RouterLeaves \cup {Act.nested}] : n \in 0..MaxMacroLen }
        LongMacros ==
            { << Act.click_ok, Act.shell_ls, Act.clip_read >>,
              << Act.click_zone, Act.click_ok, Act.shell_ls >>,
              << Act.click_ok, Act.erase_disk, Act.shell_ls >>,
              << Act.click_ok, Act.shell_ls, Act.nested >>,
              << Act.click_ok, Act.nested, Act.shell_ls >>,
              << Act.shell_ls, Act.clip_read, Act.click_zone, Act.click_ok >> }
        SkillActs ==
            { << Act.click_ok, Act.click_zone, Act.shell_ls >>,
              << Act.shell_ls, Act.click_ok >>, << Act.erase_disk >> }
    IN RouterLeaves
       \cup ShellActs
       \cup {MacroOf(acts) : acts \in SubActionLists \cup LongMacros}
       \cup {[BaseAction EXCEPT !.type = "run_skill", !.actions = acts, !.value = "found"] :
               acts \in SkillActs}
       \cup {[BaseAction EXCEPT !.type = "run_skill", !.value = "missing"]}

\* what pbpaste can give a clipboard read: one content on each side of
\* every pattern and of the entropy test
ClipboardSamples ==
    [empty |-> << >>,
     benign |-> << "h", "e", "l", "l", "o", " ", "w", "o", "r", "l", "d" >>,
     aws |-> << "A", "K", "I", "A", "1", "1", "1", "1", "1", "1", "1", "1",
             "1", "1", "1", "1", "1", "1", "1", "1" >>,
     aws_short |-> << "A", "K", "I", "A", "1", "1", "1", "1", "1", "1", "1",
             "1", "1", "1", "1", "1", "1", "1", "1" >>,
     aws_lower |-> << "a", "k", "i", "a", "1", "1", "1", "1", "1", "1", "1",
             "1", "1", "1", "1", "1", "1", "1", "1", "1" >>,
     aws_inside |-> << "i", "d", "=", "A", "K", "I", "A", "Z", "9", "Z", "9",
             "Z", "9", "Z", "9", "Z", "9", "Z", "9", "Z", "9", "Z", "9", "!" >>,
     pem |-> << "-", "-", "-", "-", "-", "B", "E", "G", "I", "N", " ", "R",
             "S", "A", " ", "P", "R", "I", "V", "A", "T", "E", " ", "K", "E",
             "Y", "-", "-", "-", "-", "-" >>,
     pem_plain |-> << "-", "-", "-", "-", "-", "B", "E", "G", "I", "N", " ",
             "P", "R", "I", "V", "A", "T", "E", " ", "K", "E", "Y", "-", "-",
             "-", "-", "-" >>,
     pem_lower |-> << "-", "-", "-", "-", "-", "b", "e", "g", "i", "n", " ",
             "r", "s", "a", " ", "p", "r", "i", "v", "a", "t", "e", " ", "k",
             "e", "y", "-", "-", "-", "-", "-" >>,
     jwt |-> << "e", "y", "J", "h", "b", "G", "c", "i", "O", "i", "J", "I",
             "U", ".", "x" >>,
     jwt_upper |-> << "E", "Y", "J", "h", "b", "G", "c", "i", "O", "i", "J",
             "I", "U", ".", "x" >>,
     jwt_short |-> << "e", "y", "J", "h", "b", "G", "c", "i", "O", "i", "J",
             "I", ".", "x" >>,
     jwt_nodot |-> << "e", "y", "J", "h", "b", "G", "c", "i", "O", "i", "J",
             "I", "U", "x" >>,
     password |-> << "p", "a", "s", "s", "w", "o", "r", "d", ":", " ", "h",
             "u", "n", "t", "e", "r", "2", "2" >>,
     password_upper |-> << "P", "A", "S", "S", "W", "O", "R", "D", "=", "h",
             "u", "n", "t", "e", "r", "2", "2" >>,
     password_short |-> << "p", "a", "s", "s", "w", "o", "r", "d", "=", "h",
             "u", "n", "t", "e", "r", "2" >>,
     token_inside |-> << "m", "y", " ", "T", "O", "K", "E", "N", ":", "a", "b",
             "c", "d", "/", "+", "=", "_" >>,
     secret_nosep |-> << "s", "e", "c", "r", "e", "t", " ", "h", "u", "n", "t",
             "e", "r", "2", "2" >>,
     entropy5 |-> << "a", "b", "c", "d", "e", "f", "g", "h", "i", "j", "k",
             "l", "m", "n", "o", "p", "q", "r", "s", "t", "u", "v", "w", "x",
             "y", "z", "0", "1", "2", "3", "4", "5" >>,
     entropy4 |-> << "a", "b", "c", "d", "e", "f", "g", "h", "i", "j", "k",
             "l", "m", "n", "o", "p", "a", "b", "c", "d", "e", "f", "g", "h",
             "i", "j", "k", "l", "m", "n", "o", "p" >>,
     entropy5_31 |-> << "a", "b", "c", "d", "e", "f", "g", "h", "i", "j", "k",
             "l", "m", "n", "o", "p", "q", "r", "s", "t", "u", "v", "w", "x",
             "y", "z", "0", "1", "2", "3", "4" >>,
     entropy5_64 |-> << "a", "b", "c", "d", "e", "f", "g", "h", "i", "j", "k",
             "l", "m", "n", "o", "p", "q", "r", "s", "t", "u", "v", "w", "x",
             "y", "z", "0", "1", "2", "3", "4", "5", "a", "b", "c", "d", "e",
             "f", "g", "h", "i", "j", "k", "l", "m", "n", "o", "p", "q", "r",
             "s", "t", "u", "v", "w", "x", "y", "z", "0", "1", "2", "3", "4",
             "5" >>,
     entropy0 |-> << "a", "a", "a", "a", "a", "a", "a", "a", "a", "a", "a",
             "a", "a", "a", "a", "a", "a", "a", "a", "a", "a", "a", "a", "a",
             "a", "a", "a", "a", "a", "a", "a", "a" >>,
     pangram |-> << "t", "h", "e", " ", "q", "u", "i", "c", "k", " ", "b", "r",
             "o", "w", "n", " ", "f", "o", "x", " ", "j", "u", "m", "p", "s",
             " ", "o", "v", "e", "r", " ", "t", "h", "e", " ", "l", "a", "z",
             "y", " ", "d", "o", "g" >>,
     runs |-> << "a", "a", "a", "a", "a", "a", "a", "a", " ", "b", "b", "b",
             "b", "b", "b", "b", "b", " ", "c", "c", "c", "c", "c", "c", "c",
             "c", " ", "d", "d", "d", "d", "d", "d", "d", "d" >>,
     thirds |-> << "a", "b", "c", "d", "e", "f", "g", "h", "i", "j", "k", "l",
             "m", "n", "o", "p", "a", "b", "c", "d", "e", "f", "g", "h", "i",
             "j", "k", "l", "m", "n", "o", "p", "a", "b", "c", "d", "e", "f",
             "g", "h", "i", "j", "k", "l", "m", "n", "o", "p" >>,
     seventeen |-> << "a", "b", "c", "d", "e", "f", "g", "h", "i", "j", "k",
             "l", "m", "n", "o", "p", "q", "a", "b", "c", "d", "e", "f", "g",
             "h", "i", "j", "k", "l", "m", "n", "o", "p", "q" >>]

ClipboardContents == {ClipboardSamples[n] : n \in DOMAIN ClipboardSamples}

IsClipboardRead(a) == a.type = "clipboard_op" /\ a.sub_action = "read"

\* the environments of a run: which driver calls fail, and on Windows the
\* settings enable_semantic and windows_cyborg_mode and whether the window
\* tree holds the hinted node
RouterEnvs ==
    {MacEnv(f) : f \in SUBSET (1..MaxDriverFail)}
    \cup {WinEnv(f, sem, node, cy) : f \in SUBSET (1..MaxDriverFail), sem \in BOOLEAN,
                                     node \in BOOLEAN, cy \in BOOLEAN}

InitRouter ==
    /\ PlanIdle
    /\ PolIdle
    /\ SkIdle
    /\ SessionIdle
    /\ TasksIdle
    /\ CliIdle
    /\ \E env \in RouterEnvs, a \in TopActions :
          /\ env.ax_node => env.enable_semantic
          /\ \E content \in IF IsClipboardRead(a) THEN ClipboardContents ELSE {<< >>} :
                rt = [IdleRt EXCEPT !.phase = "proposed", !.action = a,
                                    !.env = [env EXCEPT !.clipboard = content]]

\* orchestrator line 232: result = self.action_engine.execute(action)
RouterExecute ==
    /\ rt.phase = "proposed"
    /\ rt.action.type # "run_skill"
    /\ LET e == Execute(rt.env, rt.action, << >>, [events |-> << >>, calls |-> 0])
       IN rt' = [rt EXCEPT !.phase = "done", !.result = e.res, !.events = e.r.events]
    /\ UNCHANGED nonRt

\* orchestrator lines 162-180 and 232 for a run_skill action
RouterRunSkill ==
    /\ rt.phase = "proposed"
    /\ rt.action.type = "run_skill"
    /\ IF rt.action.value = "missing"
       THEN rt' = [rt EXCEPT !.phase = "done", !.result = Result(FALSE, "skill not found")]
       ELSE LET e == Execute(rt.env, MacroOf(rt.action.actions), << >>,
                             [events |-> << >>, calls |-> 0])
            IN rt' = [rt EXCEPT !.phase = "done", !.result = e.res, !.events = e.r.events]
    /\ UNCHANGED nonRt

NextRouter == RouterExecute \/ RouterRunSkill

SpecRouter == InitRouter /\ [][NextRouter]_vars

(***************************************************************************)
(* SpecSkill: one process calls save_skill and record_usage on a store     *)
(* that starts empty; time.time() is a clock that advances with each call. *)
(***************************************************************************)
\* the action lists handed to save_skill
SkillInputs ==
    LET ClickA == << << "type", "left_click" >>, << "x", "1" >> >>
        ClickAReordered == << << "x", "1" >>, << "type", "left_click" >> >>
        ClickB == << << "type", "left_click" >>, << "x", "2" >> >>
    IN { << ClickA >>, << ClickAReordered >>, << ClickB >>, << ClickA, ClickB >>,
         << NotADict, ClickAReordered, ClickB >>, << NotADict >>, << >> }

\* name, description and tags of a save_skill call
SkillCallers ==
    { [name |-> "macro-a", description |-> "", tags |-> {"macro"}],
      [name |-> "", description |-> "criteria", tags |-> {"macro", "step:1"}] }

InitSkill ==
    /\ PlanIdle
    /\ PolIdle
    /\ RtIdle
    /\ SessionIdle
    /\ TasksIdle
    /\ CliIdle
    /\ sk = [IdleSk EXCEPT !.last.op = "init"]

SkillSave ==
    /\ sk.ops < MaxSkillOps
    /\ \E actions \in SkillInputs, c \in SkillCallers, ok \in BOOLEAN :
          LET r == SaveSkill(sk.store, sk.ids, sk.clock, c.name, c.description,
                             actions, c.tags, ok)
          IN sk' = [store |-> r.store, ids |-> r.ids, clock |-> sk.clock + 1,
                    ops |-> sk.ops + 1,
                    last |-> [op |-> "save_skill",
                              fp |-> FingerprintActions(CleanedActions(actions)),
                              raised |-> r.raised, ok |-> ok, ret |-> r.ret,
                              before |-> sk.store]]
    /\ UNCHANGED nonSk

SkillRecordUsage ==
    /\ sk.ops < MaxSkillOps
    /\ \E ref \in {s.id : s \in sk.store} \cup {<< "macro-a" >>, << "no-such-skill" >>},
          ok \in BOOLEAN :
          LET r == RecordUsage(sk.store, sk.clock, ref, ok)
          IN sk' = [sk EXCEPT !.store = r.store, !.clock = @ + 1, !.ops = @ + 1,
                              !.last = [op |-> "record_usage", fp |-> << >>,
                                        raised |-> FALSE, ok |-> ok, ret |-> r.ret,
                                        before |-> sk.store]]
    /\ UNCHANGED nonSk

NextSkill == SkillSave \/ SkillRecordUsage

SpecSkill == InitSkill /\ [][NextSkill]_vars

(***************************************************************************)
(* Spec: one session of Orchestrator.run_task.  Every step is one pass     *)
(* through "while not state.should_halt()", from the check at the top to   *)
(* the continue, break or exception that ends the pass, or the check that  *)
(* ends the loop.  pc is "loop" while the loop runs, "halted" after        *)
(* should_halt returned True, "done" after a break and "raised" after an   *)
(* exception left _run_session.                                            *)
(***************************************************************************)
Init ==
    /\ cfg \in Sessions
    /\ plan \in {MakePlan(cfg.planner, out) : out \in cfg.outs}
    /\ plan_ops = 0
    /\ state = StartedState
    /\ loop \in {[IdleLoop EXCEPT !.pc = "loop", !.frame = f] : f \in cfg.frames}
    /\ trace = << >>
    /\ fs = << >>
    /\ PolIdle
    /\ RtIdle
    /\ SkIdle
    /\ TasksIdle
    /\ CliIdle

\* time.time() - started_at at the check of an iteration; the clock is only
\* read when a wall-clock limit is set
Clock(c, lp) == IF c.max_wall = {} THEN {lp.elapsed} ELSE {lp.elapsed, lp.elapsed + 1}

\* what the environment may answer during one iteration
Inputs(c, lp) ==
    [a : c.acts, now : Clock(c, lp),
     out1 : c.outs, out2 : c.outs, fail : c.fails, frame : c.frames,
     tb : c.trees, ta : c.trees, verdict : c.verdicts, hint : c.hints]

Iterate(path) ==
    /\ cfg.max_steps # 0 \/ Len(trace) < MaxIter
    /\ \E inp \in Inputs(cfg, loop) :
         /\ ~ShouldHalt(cfg, state, inp.now)
         /\ \E b \in {Body(cfg, plan, state, loop, inp)} :
               /\ b.path = path
               /\ plan' = b.plan
               /\ state' = b.state
               /\ loop' = [b.loop EXCEPT !.pc = b.pc]
               /\ trace' = Append(trace, b.rec)
               /\ sk' = b.sk
    /\ UNCHANGED << cfg, fs, plan_ops, pol, rt, tasks, cli >>

\* the action is a noop: break
IterNoop ==
    /\ loop.pc = "loop"
    /\ Iterate("noop")

\* skill not found, element_id not found, notebook_op, hotkey deduped, app
\* open deduped: record_action and continue
IterSkipped ==
    /\ loop.pc = "loop"
    /\ Iterate("skipped")

\* the action goes to ActionEngine.execute and the rest of the body runs
IterExecuted ==
    /\ loop.pc = "loop"
    /\ Iterate("executed")

\* an exception other than KeyboardInterrupt leaves _run_session: ValueError
\* from time.sleep of a negative wait in ActionEngine.execute, AttributeError
\* at current_step.recovery_steps after a "failed" verdict of the reflector
IterRaised ==
    /\ loop.pc = "loop"
    /\ Iterate("raised")

\* should_halt() returns True
Halt ==
    /\ loop.pc = "loop"
    /\ \E now \in Clock(cfg, loop) :
         /\ ShouldHalt(cfg, state, now)
         /\ loop' = [loop EXCEPT !.pc = "halted", !.elapsed = now]
    /\ UNCHANGED << plan, state, trace, cfg, fs, nonSession >>

\* The pass up to the point where KeyboardInterrupt arrives: in
\* propose_action (1), after record_action (2), after record_observation
\* (3), after the reflection (4).
Partial(c, p0, st0, lp0, inp, stage, ex) ==
    LET routed == Route(Begin(c, p0, st0, lp0, inp), ex)
    IN CASE stage = 1 -> Begin(c, p0, st0, lp0, inp)
         [] stage = 2 -> routed
         [] stage = 3 -> Observe(routed)
         [] OTHER -> Reflect(Observe(routed))

\* "except KeyboardInterrupt": the user interrupts the session at the loop
\* test or inside a pass
Interrupt ==
    /\ loop.pc = "loop"
    /\ cfg.interrupts
    /\ cfg.max_steps # 0 \/ Len(trace) < MaxIter
    /\ \/ /\ loop' = [loop EXCEPT !.pc = "interrupted"]
          /\ UNCHANGED << plan, state, trace, sk >>
       \/ \E inp \in Inputs(cfg, loop), stage \in 1..4 :
            /\ ~ShouldHalt(cfg, state, inp.now)
            /\ \E x \in {Partial(cfg, plan, state, loop, inp, stage,
                                 Execute(MacEnv(inp.fail), RoutedAction(Proposed[inp.a], sk.store), << 1 >>,
                                         [events |-> << >>, calls |-> 0]))} :
                  /\ stage = 1 \/ (x.path = "executed" /\ x.pc = "loop")
                  /\ plan' = x.plan
                  /\ state' = x.state
                  /\ loop' = [x.loop EXCEPT !.pc = "interrupted"]
                  /\ trace' = Append(trace, [x.rec EXCEPT !.interrupted = TRUE])
                  /\ sk' = x.sk
    /\ UNCHANGED << cfg, fs, plan_ops, pol, rt, tasks, cli >>

\* an outcome that tests the failures last, so that "mixed" overrides
\* "incomplete"
OutcomeFailuresLast(st, p) ==
    IF st.failure_count > 0 THEN "mixed"
    ELSE IF HasCurrentStep(p) THEN "incomplete"
    ELSE "success"

\* the outcome _persist_episode gives the Episode
Outcome(st, p) ==
    IF HasCurrentStep(p) THEN "incomplete"
    ELSE IF st.failure_count > 0 THEN "mixed"
    ELSE "success"

\* a write of task t to the file name in directory dir of the memory root
FileWrite(t, dir, name, lines, outcome) ==
    [task |-> t, dir |-> dir, name |-> name, lines |-> lines, outcome |-> outcome]

\* a persistence step that writes the log and not the Episode
PersistLogOnly ==
    /\ loop.pc \in {"done", "halted", "interrupted"}
    /\ fs' = fs \o << FileWrite(1, "logs", plan.id, state.history, "") >>
    /\ loop' = [loop EXCEPT !.pc = "returned"]
    /\ UNCHANGED << plan, state, trace, cfg, nonSession >>

\* _run_session after the loop: state.summary(), _persist_episode (the log
\* of the history lines, then the Episode), return summary
Persist ==
    /\ loop.pc \in {"done", "halted", "interrupted"}
    /\ fs' = fs \o << FileWrite(1, "logs", plan.id, state.history, ""),
                      FileWrite(1, "episodes", plan.id, << >>, Outcome(state, plan)) >>
    /\ loop' = [loop EXCEPT !.pc = "returned"]
    /\ UNCHANGED << plan, state, trace, cfg, nonSession >>

Next == IterNoop \/ IterSkipped \/ IterExecuted \/ IterRaised \/ Halt \/ Interrupt \/ Persist

Spec == Init /\ [][Next]_vars

\* The code after the loop is straight-line: once the loop has ended,
\* summary, _persist_episode and return follow.
SpecLive == Spec /\ WF_vars(Persist)

(***************************************************************************)
(* SpecTasks: two run_task invocations against one memory root.  Each     *)
(* step is one access to the directories: the scan of save_skill, its     *)
(* _write, the lookup of run_skill, record_usage, and the two writes of   *)
(* _persist_episode.  sk.store is the skills directory both tasks see.    *)
(***************************************************************************)
\* str(uuid.uuid4()) as drawn by make_plan of task t
TaskUuid(t) == IF t = 1 THEN "uuid-1" ELSE "uuid-2"

\* the id of the Plan make_plan returns to task t
TaskPlanId(t, client, out) ==
    LET p == MakePlan(client, out)
    IN IF p.id = "uuid" THEN TaskUuid(t) ELSE p.id

\* macro_actions a task may have run with success and a changed screen
TaskMacros ==
    LET ClickA == << << "type", "left_click" >>, << "x", "1" >> >>
        ClickB == << << "type", "left_click" >>, << "x", "2" >> >>
    IN { << ClickA >>, << ClickB >> }

InitTasks ==
    /\ PlanIdle
    /\ PolIdle
    /\ RtIdle
    /\ SessionIdle
    /\ CliIdle
    /\ sk = [IdleSk EXCEPT !.last.op = "init"]
    /\ \E c \in [Tasks -> BOOLEAN] :
          tasks = [t \in Tasks |->
                     [pc |-> "loop",
                      plan_id |-> TaskPlanId(t, c[t], [ok |-> TRUE, id |-> "plan-a",
                                                       statuses |-> << "pending" >>, idx |-> 0]),
                      call |-> NoCall]]

\* _maybe_save_skill -> save_skill up to _find_by_fingerprint: the scan of
\* the skill files
TaskFindByFingerprint ==
    \E t \in Tasks, actions \in TaskMacros, c \in SkillCallers :
        /\ tasks[t].pc = "loop"
        /\ sk.ops < MaxSkillOps
        /\ tasks' = [tasks EXCEPT ![t].pc = "save_skill",
                        ![t].call = [name |-> c.name, description |-> c.description,
                                     tags |-> c.tags, actions |-> actions,
                                     found |-> FindByFingerprint(sk.store,
                                                  FingerprintActions(CleanedActions(actions)))]]
        /\ UNCHANGED << plan, plan_ops, pol, rt, sk, session, cli >>

\* save_skill from "if existing" on: the found skill is updated, or a new
\* one made, and _write replaces the file of its id
TaskWriteSkill ==
    \E t \in Tasks :
        /\ tasks[t].pc = "save_skill"
        /\ LET call == tasks[t].call
               seen == IF call.found = NoSkill THEN {} ELSE {call.found}
           IN \E r \in {SaveSkill(seen, sk.ids, sk.clock, call.name, call.description,
                                  call.actions, call.tags, TRUE)} :
                 /\ sk' = [sk EXCEPT !.store = Write(sk.store, r.ret, TRUE), !.ids = r.ids,
                                     !.clock = @ + 1, !.ops = @ + 1]
                 /\ fs' = Append(fs, FileWrite(t, "skills", r.ret.id, << >>, ""))
        /\ tasks' = [tasks EXCEPT ![t].pc = "loop", ![t].call = NoCall]
        /\ UNCHANGED << plan, plan_ops, pol, rt, cfg, state, loop, trace, cli >>

\* run_skill: memory.get_skill(skill_ref); "skill not found" leaves the
\* task in its loop
TaskGetSkill ==
    \E t \in Tasks, ref \in {s.id : s \in sk.store} \cup {<< "macro-a" >>} :
        /\ tasks[t].pc = "loop"
        /\ sk.ops < MaxSkillOps
        /\ LET skill == GetSkill(sk.store, ref)
           IN tasks' = IF skill = NoSkill THEN tasks
                       ELSE [tasks EXCEPT ![t].pc = "run_skill", ![t].call.found = skill]
        /\ sk' = [sk EXCEPT !.ops = @ + 1]
        /\ UNCHANGED << plan, plan_ops, pol, rt, session, cli >>

\* run_skill: memory.record_skill_usage(skill.id); a file that is gone by
\* now is not written
TaskRecordUsage ==
    \E t \in Tasks :
        /\ tasks[t].pc = "run_skill"
        /\ \E r \in {RecordUsage(sk.store, sk.clock, tasks[t].call.found.id, TRUE)} :
              /\ sk' = [sk EXCEPT !.store = r.store, !.clock = @ + 1]
              /\ fs' = IF r.ret = NoSkill THEN fs
                       ELSE Append(fs, FileWrite(t, "skills", r.ret.id, << >>, ""))
        /\ tasks' = [tasks EXCEPT ![t].pc = "loop", ![t].call = NoCall]
        /\ UNCHANGED << plan, plan_ops, pol, rt, cfg, state, loop, trace, cli >>

\* _persist_episode: the log file of episode_id
TaskWriteLog ==
    \E t \in Tasks :
        /\ tasks[t].pc = "loop"
        /\ fs' = Append(fs, FileWrite(t, "logs", tasks[t].plan_id, << >>, ""))
        /\ tasks' = [tasks EXCEPT ![t].pc = "save_episode"]
        /\ UNCHANGED << plan, plan_ops, pol, rt, sk, cfg, state, loop, trace, cli >>

\* _persist_episode: memory.save_episode(episode), then run_task returns
TaskSaveEpisode ==
    \E t \in Tasks :
        /\ tasks[t].pc = "save_episode"
        /\ fs' = Append(fs, FileWrite(t, "episodes", tasks[t].plan_id, << >>, ""))
        /\ tasks' = [tasks EXCEPT ![t].pc = "returned"]
        /\ UNCHANGED << plan, plan_ops, pol, rt, sk, cfg, state, loop, trace, cli >>

NextTasks ==
    \/ TaskFindByFingerprint
    \/ TaskWriteSkill
    \/ TaskGetSkill
    \/ TaskRecordUsage
    \/ TaskWriteLog
    \/ TaskSaveEpisode

SpecTasks == InitTasks /\ [][NextTasks]_vars

(***************************************************************************)
(* SpecCli: one process of cua_agent/main.py.  run() loads the adapter,    *)
(* runs its health checks and then reads prompts, handing each to          *)
(* Orchestrator.run_task, until a blank prompt.  A function that returns   *)
(* ends the process with exit code 0, an exception nobody catches with     *)
(* exit code 1.                                                            *)
(***************************************************************************)
MaxPrompts == 2       \* prompts read by one process

Permissions == {"Screen Recording", "Accessibility"}

\* "x or y" of Python on strings: None and "" are falsy
Truthy(x) == x \notin {None, ""}

\* _default_adapter_module; None when it raises RuntimeError
DefaultAdapterModule(system) ==
    CASE system = "Darwin" -> "macos_cua_agent"
      [] system = "Windows" -> "windows_cua_agent"
      [] OTHER -> None

\* load_computer: whether it raises, and the message or the module loaded
LoadComputer(adapter_module, env, system, importable, factories) ==
    LET module_name == IF Truthy(adapter_module) THEN adapter_module
                       ELSE IF Truthy(env) THEN env
                       ELSE DefaultAdapterModule(system)
    IN IF module_name = None THEN [raised |-> TRUE, msg |-> "Unsupported platform"]
       ELSE IF module_name \notin importable
       THEN [raised |-> TRUE, msg |-> "Failed to import adapter"]
       ELSE IF module_name \notin factories
       THEN [raised |-> TRUE, msg |-> "must expose create_computer"]
       ELSE [raised |-> FALSE, msg |-> module_name]

\* a health check that reports nothing
MissingNothing(perms, needs_ax) == << >>

\* run_permission_health_checks: the list "missing"; it raises RuntimeError
\* when the list is not empty
MissingPermissions(perms, needs_ax) ==
    (IF "Screen Recording" \notin perms THEN << "Screen Recording" >> ELSE << >>)
    \o (IF needs_ax /\ "Accessibility" \notin perms THEN << "Accessibility" >> ELSE << >>)

\* run() returns: the process ends with exit code 0
Returns(c, how) == [c EXCEPT !.pc = "exited", !.last = how, !.exit = 0]

\* an exception leaves run(): traceback and exit code 1
Escapes(c, how) == [c EXCEPT !.pc = "exited", !.last = how, !.exit = 1]

InitCli ==
    /\ PlanIdle
    /\ PolIdle
    /\ RtIdle
    /\ SkIdle
    /\ SessionIdle
    /\ TasksIdle
    /\ \E adapter \in {None, "", "windows_cua_agent", "nope"},
          env \in {None, "macos_cua_agent"},
          system \in {"Darwin", "Windows", "Linux"},
          importable \in {{"macos_cua_agent", "windows_cua_agent"}, {"windows_cua_agent"}},
          factories \in {{"macos_cua_agent", "windows_cua_agent"}, {"macos_cua_agent"}},
          perms \in SUBSET Permissions, needs_ax \in BOOLEAN :
          cli = [IdleCli EXCEPT !.pc = "start", !.adapter = adapter, !.env = env,
                                !.system = system, !.importable = importable,
                                !.factories = factories, !.perms = perms,
                                !.needs_ax = needs_ax]

\* run lines 23-27: load_computer; its exception is logged and run returns
CliLoadComputer ==
    /\ cli.pc = "start"
    /\ LET r == LoadComputer(cli.adapter, cli.env, cli.system, cli.importable, cli.factories)
       IN cli' = IF r.raised
                 THEN Returns([cli EXCEPT !.errors = Append(@, r.msg)], "load failed")
                 ELSE [cli EXCEPT !.pc = "loaded"]
    /\ UNCHANGED << plan, plan_ops, pol, rt, sk, session, tasks >>

\* run lines 29-35: computer.run_health_checks; its exception is logged and
\* run returns; otherwise the Orchestrator is built
CliHealthChecks ==
    /\ cli.pc = "loaded"
    /\ cli' = IF MissingPermissions(cli.perms, cli.needs_ax) # << >>
              THEN Returns([cli EXCEPT !.errors = Append(@, "Missing required permissions")],
                           "health failed")
              ELSE [cli EXCEPT !.pc = "ready"]
    /\ UNCHANGED << plan, plan_ops, pol, rt, sk, session, tasks >>

\* run lines 37-42: a blank prompt, EOF or Ctrl-C ends the process; while
\* the process waits the user may change the permissions
CliReadPrompt ==
    /\ cli.pc = "ready"
    /\ cli.prompts < MaxPrompts
    /\ \E prompt \in {"", "do it"}, perms \in SUBSET Permissions :
         cli' = IF prompt = ""
                THEN Returns([cli EXCEPT !.prompts = @ + 1], "blank prompt")
                ELSE [cli EXCEPT !.pc = "run_task", !.prompts = @ + 1, !.perms = perms,
                                 !.task_events = << >>]
    /\ UNCHANGED << plan, plan_ops, pol, rt, sk, session, tasks >>

\* run_task line 47: run_permission_health_checks; its RuntimeError leaves
\* run_task and run
RunTaskHealthChecks ==
    /\ cli.pc = "run_task"
    /\ cli' = IF MissingPermissions(cli.perms, cli.needs_ax) # << >>
              THEN Escapes([cli EXCEPT !.errors = Append(@, "Missing required permissions")],
                           "task health failed")
              ELSE [cli EXCEPT !.pc = "capture"]
    /\ UNCHANGED << plan, plan_ops, pol, rt, sk, session, tasks >>

\* run_task lines 49-52: the initial frame, the prior episodes and items
RunTaskCapture ==
    /\ cli.pc = "capture"
    /\ cli' = [cli EXCEPT !.pc = "make_plan", !.task_events = Append(@, "capture")]
    /\ UNCHANGED << plan, plan_ops, pol, rt, sk, session, tasks >>

\* run_task line 55: planner.make_plan
RunTaskMakePlan ==
    /\ cli.pc = "make_plan"
    /\ cli' = [cli EXCEPT !.pc = "run_session", !.task_events = Append(@, "plan")]
    /\ UNCHANGED << plan, plan_ops, pol, rt, sk, session, tasks >>

\* run_task lines 58-61 and run line 44: _run_session proposes and executes
\* actions and persists the episode, or an exception leaves it
RunTaskSession ==
    /\ cli.pc = "run_session"
    /\ \E raised \in BOOLEAN :
         cli' = IF raised
                THEN Escapes([cli EXCEPT !.task_events = Append(@, "actions")],
                             "task raised")
                ELSE [cli EXCEPT !.pc = "ready", !.tasks_done = @ + 1,
                                 !.task_events = @ \o << "actions", "episode" >>]
    /\ UNCHANGED << plan, plan_ops, pol, rt, sk, session, tasks >>

NextCli ==
    \/ CliLoadComputer
    \/ CliHealthChecks
    \/ CliReadPrompt
    \/ RunTaskHealthChecks
    \/ RunTaskCapture
    \/ RunTaskMakePlan
    \/ RunTaskSession

SpecCli == InitCli /\ [][NextCli]_vars


\* rule 4 of the order on the platform of the engine: the shell allowlist
ShellAllowlistDenies(engine, rules, allow_env, a) ==
    /\ a.type = "sandbox_shell"
    /\ IF engine = "core" THEN ~ShellCheck(a).allowed
       ELSE ~EvaluateWindowsShell(rules, allow_env, a).allowed

\* the outcome of the first matching rule in the order blocked_actions,
\* run_javascript rules, spatial exclusion, sandbox_shell allowlist,
\* blocked_bundle_ids, hitl_actions, destructive shell patterns, default allow
FirstMatchKind(engine, rules, allow_env, a) ==
    IF a.type \in rules.blocked_actions \/ a.command \in rules.blocked_actions THEN "deny"
    ELSE IF a.type = "browser_op" /\ a.command = "run_javascript"
            /\ \E d \in rules.sensitive_domains : HostMatches(a.url, d) THEN "deny"
    ELSE IF a.type = "browser_op" /\ a.command = "run_javascript"
            /\ ContainsDangerousJs(a.value) THEN "hitl"
    ELSE IF FirstZoneHit(rules.exclusion_zones, a) # 0 THEN "deny"
    ELSE IF ShellAllowlistDenies(engine, rules, allow_env, a) THEN "deny"
    ELSE IF a.bundle_id \in rules.blocked_bundle_ids THEN "deny"
    ELSE IF a.type \in rules.hitl_actions \/ a.command \in rules.hitl_actions THEN "hitl"
    ELSE IF a.type = "sandbox_shell"
            /\ (WinDestructive(CmdTokens(a)) \/ WinScript(CmdTokens(a))) THEN "hitl"
    ELSE "allow"

\* C3: on the core engine, the Windows engine and the Windows router the
\* outcome of an evaluated action is the outcome of the first matching rule
\* of the order of section 4.2.
C3_FirstMatchingRuleDecides ==
    pol.phase = "decided" =>
        Kind(pol.decision) = FirstMatchKind(pol.engine, pol.rules, pol.allow_env, pol.action)


\* the result the router returned for the action at a path of length <= 1
ResultAt(path) ==
    IF path = << >> THEN rt.result ELSE rt.result.subresults[path[1] + 1]

\* the action at path reached one of the calls in kinds only after the policy
\* allowed it without hitl; a denied or hitl action reached none, was
\* evaluated once and was reported as a failure
GatedBy(kinds) ==
    LET ev == rt.events
    IN /\ \A k \in 1..Len(ev) :
            ev[k].ev \in kinds =>
                \E j \in 1..(k - 1) : ev[j] = Ev("policy", "allow", ev[k].path)
       /\ \A j \in 1..Len(ev) :
            (ev[j].ev = "policy" /\ ev[j].who \in {"deny", "hitl"}) =>
                /\ \A k \in 1..Len(ev) :
                      (k # j /\ ev[k].path = ev[j].path) => ev[k].ev \notin (kinds \cup {"policy"})
                /\ Len(ev[j].path) <= 1 =>
                      /\ ~ResultAt(ev[j].path).success
                      /\ ev[j].who = "hitl" =>
                            ResultAt(ev[j].path).reason = "human confirmation required"

\* C2 (as stated): no call of any driver is made for an action before the
\* policy allowed it without hitl, and none at all for a denied or hitl
\* action, which is reported as a failure and is not retried.
C2_NoDriverCallWithoutAllow == rt.phase = "done" => GatedBy({"driver", "query"})

\* C2 (amended): the calls that carry out an action are made only after the
\* policy allowed it without hitl; the context queries of the Windows router
\* (current URL, window tree for retargeting) are made before the decision.
C2_DispatchOnlyAfterAllow == rt.phase = "done" => GatedBy({"driver"})

\* a run with a hitl sub-action after a dispatched one
C2_Witness ==
    /\ rt.phase = "done"
    /\ \E j, k \in 1..Len(rt.events) :
          /\ k < j
          /\ rt.events[k].ev = "driver"
          /\ rt.events[j] = Ev("policy", "hitl", << 1 >>)
    /\ rt.result.detail = << 1, "human confirmation required" >>

\* the list of sub-actions of the macro the router ran
MacroList == rt.action.actions

IsMacroRun ==
    /\ rt.phase = "done"
    /\ \/ rt.action.type = "macro_actions"
       \/ rt.action.type = "run_skill" /\ rt.action.value = "found"

\* C8: the sub-actions of a macro reach the router one at a time in list
\* order; after the first failing (or nested macro) sub-action i nothing of
\* i+1..N-1 is evaluated or dispatched, the result is unsuccessful and names
\* index i; the result is successful only if all N succeeded.
C8_MacroStopsAtFirstFailure ==
    IsMacroRun =>
        LET ev == rt.events
            sub == rt.result.subresults
            n == Len(MacroList)
        IN /\ Len(sub) <= n
           /\ \A k \in 1..Len(sub) : sub[k].index = k - 1
           /\ \A k \in 1..(Len(sub) - 1) : sub[k].success
           /\ \A j, k \in 1..Len(ev) :
                 (j < k /\ ev[j].path # << >> /\ ev[k].path # << >>) =>
                     ev[j].path[1] <= ev[k].path[1]
           /\ \A k \in 1..Len(ev) : ev[k].path # << >> => ev[k].path[1] < Len(sub)
           /\ rt.result.success <=> (Len(sub) = n /\ \A k \in 1..n : sub[k].success)
           /\ ~rt.result.success =>
                 /\ Len(sub) >= 1
                 /\ ~sub[Len(sub)].success
                 /\ \/ rt.result.detail = << Len(sub) - 1, sub[Len(sub)].reason >>
                    \/ /\ rt.result.reason = "nested macro not allowed"
                       /\ MacroList[Len(sub)].type = "macro_actions"
           /\ \A k \in 1..Len(sub) :
                 MacroList[k].type = "macro_actions" => ~sub[k].success

\* a macro of three whose second sub-action failed: the third left no event
C8_Witness ==
    /\ IsMacroRun
    /\ Len(MacroList) >= 3
    /\ Len(rt.result.subresults) = 2
    /\ rt.result.detail[1] = 1
    /\ \E k \in 1..Len(rt.events) : rt.events[k] = Ev("driver", "hid", << 0 >>)


\* two action lists that differ at most in the key order of their dicts
SameUpToKeyOrder(l1, l2) ==
    /\ Len(l1) = Len(l2)
    /\ \A i \in 1..Len(l1) :
          {l1[i][k] : k \in 1..Len(l1[i])} = {l2[i][k] : k \in 1..Len(l2[i])}

\* C9: no two stored skills share a fingerprint; a save_skill whose
\* fingerprint is already stored returns the existing skill's id, stores no
\* new skill, returns it with usage_count one higher (stored so when the
\* write succeeds) and leaves id, name, actions and created_at as they were;
\* lists that differ only in key order have the same fingerprint.
C9_OneSkillPerFingerprint ==
    /\ \A s, t \in sk.store : (s.fingerprint = t.fingerprint \/ s.id = t.id) => s = t
    /\ \A l1, l2 \in SkillInputs :
          SameUpToKeyOrder(l1, l2) => FingerprintActions(l1) = FingerprintActions(l2)
    /\ \A e \in sk.last.before :
          (sk.last.op = "save_skill" /\ e.fingerprint = sk.last.fp) =>
              /\ ~sk.last.raised
              /\ sk.last.ret.id = e.id
              /\ sk.last.ret.usage_count = e.usage_count + 1
              /\ {s.id : s \in sk.store} = {s.id : s \in sk.last.before}
              /\ \E s \in sk.store :
                    /\ s.id = e.id /\ s.name = e.name /\ s.actions = e.actions
                    /\ s.created_at = e.created_at
                    /\ s.usage_count = IF sk.last.ok THEN e.usage_count + 1 ELSE e.usage_count

\* the reordered list was saved over the stored skill of the original list
C9_Witness ==
    /\ sk.last.op = "save_skill"
    /\ sk.last.ok
    /\ \E e \in sk.last.before :
          /\ e.fingerprint = sk.last.fp
          /\ e.actions # sk.last.fp
          /\ sk.last.ret.id = e.id
          /\ sk.last.ret.usage_count = 2

\* ---------------------------------------------------------------------------
\* The orchestrator loop
\* ---------------------------------------------------------------------------

Passes == 1..Len(trace)

\* C1 as stated: with max_steps >= 1 the loop makes at most max_steps passes,
\* and no pass starts at a loop-top check where failure_count >= max_failures
\* or the elapsed wall clock >= max_wall_clock_seconds.
C1_HaltsAtFirstLimit ==
    /\ cfg.max_steps >= 1 => Len(trace) <= cfg.max_steps
    /\ \A i \in Passes :
          /\ trace[i].top.failure_count < cfg.max_failures
          /\ \A w \in cfg.max_wall : trace[i].top.elapsed < w

\* C1 amended: each limit stops the loop at the first loop-top check that
\* reaches it when the limit is set (max_steps >= 1, max_failures >= 1,
\* max_wall_clock_seconds not None); a limit of 0 is no limit.  A pass that
\* starts has used fewer than max_steps steps, one step per earlier pass.
C1_HaltsAtFirstSetLimit ==
    /\ cfg.max_steps >= 1 => Len(trace) <= cfg.max_steps
    /\ \A i \in Passes :
          /\ trace[i].top.steps <= i - 1
          /\ cfg.max_steps >= 1 => trace[i].top.steps < cfg.max_steps
          /\ cfg.max_failures >= 1 => trace[i].top.failure_count < cfg.max_failures
          /\ \A w \in cfg.max_wall : trace[i].top.elapsed < w
    /\ loop.pc = "halted" =>
          \/ cfg.max_steps >= 1 /\ state.steps >= cfg.max_steps
          \/ cfg.max_failures >= 1 /\ state.failure_count >= cfg.max_failures
          \/ \E w \in cfg.max_wall : loop.elapsed >= w

\* the failure limit stopped a session that had steps left
C1_Witness ==
    /\ loop.pc = "halted"
    /\ cfg.max_failures >= 1
    /\ state.failure_count >= cfg.max_failures
    /\ state.steps < cfg.max_steps
    /\ Len(trace) >= 2

StepMoveAllowed(s, t) ==
    \/ s = t
    \/ s = "pending" /\ t = "in_progress"
    \/ s = "in_progress" /\ t \in {"done", "failed"}

\* C5: every advance() and fail_current() the loop makes moves each step
\* only pending -> in_progress or in_progress -> done/failed, so a done or
\* failed step keeps its status.
C5_StatusTransitionsMonotone ==
    \A i \in Passes : \A k \in 1..(Len(trace[i].calls) - 1) :
        LET before == trace[i].calls[k]
            after == trace[i].calls[k + 1]
        IN /\ Len(before) = Len(after)
           /\ \A n \in 1..Len(before) : StepMoveAllowed(before[n], after[n])

IsKeyPass(i) == Proposed[trace[i].a].type = "key"
KeysOf(i) == Proposed[trace[i].a].keys
SameKeySet(i, j) ==
    {Lower(KeysOf(i)[n]) : n \in DOMAIN KeysOf(i)} = {Lower(KeysOf(j)[n]) : n \in DOMAIN KeysOf(j)}
SameCombo(i, j) == Combo(KeysOf(i)) = Combo(KeysOf(j))
ChangeSeen(k) == trace[k].changed
ChangeOrCompletionSeen(k) == trace[k].changed \/ trace[k].completed

\* dispatches of the combo of pass j that nothing has cleared when j starts
Remembered(j, Same(_, _), Cleared(_)) ==
    Cardinality({i \in 1..(j - 1) : /\ IsKeyPass(i) /\ trace[i].routed /\ Same(i, j)
                                    /\ \A k \in i..(j - 1) : ~Cleared(k)})

Deduplicates(Same(_, _), Cleared(_)) ==
    \A j \in Passes :
        IsKeyPass(j) =>
            IF Remembered(j, Same, Cleared) >= 2
            THEN /\ ~trace[j].routed
                 /\ trace[j].drivers = 0
                 /\ ~trace[j].success
                 /\ trace[j].reason = "hotkey deduped"
            ELSE trace[j].routed

\* C7 as stated: of key actions with the same set of lowercased keys and no
\* UI change in between, the first two are dispatched and every later one is
\* recorded "hotkey deduped" without reaching the router; an observed change
\* empties the ledger.
C7_ThirdOfSameKeySetDeduped == Deduplicates(SameKeySet, ChangeSeen)

\* C7 amended: the combo is the sorted tuple of the lowercased keys (a
\* repeated key makes a different combo), and the ledger is emptied by an
\* observed change and also by the completion of the current plan step.
C7_ThirdOfSameComboDeduped == Deduplicates(SameCombo, ChangeOrCompletionSeen)

\* a third invocation was deduped, a change was observed, and the combo was
\* dispatched again
C7_Witness ==
    \E i \in Passes, k \in Passes, j \in Passes :
        /\ i < k /\ k < j
        /\ IsKeyPass(i) /\ trace[i].reason = "hotkey deduped" /\ ~trace[i].routed
        /\ trace[k].changed
        /\ IsKeyPass(j) /\ SameCombo(i, j) /\ trace[j].routed

\* C10: a verified pass whose frame after the action is the frame before it
\* and whose accessibility tree after the action is the tree before it
\* records changed = false.
C10_IdenticalMeansUnchanged ==
    \A i \in Passes :
        (/\ trace[i].routed /\ trace[i].verify
         /\ trace[i].frame_same /\ trace[i].tree_same) => ~trace[i].changed

\* a pass in which a break was pending
IsStuckPass(i) == trace[i].stuck.reason # ""

\* the reasons of the pending breaks of the session, in order
StuckReasonsOf(t) ==
    LET stuck == SelectSeq(t, LAMBDA r : r.stuck.reason # "")
    IN [j \in 1..Len(stuck) |-> stuck[j].stuck.reason]

\* the pass got a hint of the reflector while hint budget remained, or a
\* plan different from the current one while replan budget remained
MadeProgress(i) ==
    \/ trace[i].stuck.hint /\ trace[i].top.hints < MaxHints
    \/ trace[i].stuck.differs /\ trace[i].replan.revisions < MaxPlanRevisions

\* C11: on every pending break the current step, if there is one, is marked
\* failed and the reason is appended to stuck_reasons; the loop goes on after
\* that pass exactly if the reflector gave a hint while hint budget remained
\* or the planner gave a different plan while replan budget remained;
\* otherwise that pass is the last one and the loop has ended.
C11_StuckRecovery ==
    /\ state.stuck_reasons = StuckReasonsOf(trace)
    /\ \A i \in Passes :
          IsStuckPass(i) =>
             /\ trace[i].stuck.reason \in {"oscillatory_loop", "repeat_same_action:3",
                                           "repeat_without_change", "visual_stagnation"}
             /\ trace[i].stuck.step \in {"failed", "none"}
             /\ trace[i].top.step # "none" /\ ~trace[i].replan.asked
                   => trace[i].stuck.step = "failed"
             /\ trace[i].stuck.went_on <=> MadeProgress(i)
             /\ ~MadeProgress(i) => i = Len(trace) /\ loop.pc \notin {"loop", "halted"}
             /\ MadeProgress(i) /\ i = Len(trace) => loop.pc # "done"

\* a pending break after which the loop went on with a hint, and a later one
\* with both budgets exhausted that failed the step and ended the loop
C11_Witness ==
    \E i \in Passes, j \in Passes :
        /\ i < j /\ j = Len(trace)
        /\ IsStuckPass(i) /\ trace[i].stuck.hint /\ trace[i].stuck.went_on
        /\ IsStuckPass(j) /\ trace[j].stuck.step = "failed"
        /\ trace[j].top.hints = MaxHints
        /\ trace[j].replan.revisions = MaxPlanRevisions
        /\ ~trace[j].stuck.went_on
        /\ loop.pc = "done"

\* the guard at the top of pass i called revise_plan
ReplanAsked(i) == trace[i].replan.asked

\* at the top of pass i replan budget remained and a repeat counter had
\* reached its threshold, or failure_count >= 3, or the current step was failed
ReplanDue(i) ==
    /\ trace[i].top.revisions < MaxPlanRevisions
    /\ \/ trace[i].top.repeat_same_action >= 3
       \/ trace[i].top.repeat_without_change >= 2
       \/ trace[i].top.failure_count >= 3
       \/ trace[i].top.step = "failed"

\* the call of pass i reset the repeat counters and the last action signature
ReplanResets(i) ==
    /\ trace[i].replan.repeat_same_action = 0
    /\ trace[i].replan.repeat_without_change = 0
    /\ trace[i].replan.last_action_sig = None

\* the call of pass i took one unit of the replan budget
ReplanSpendsBudget(i) == trace[i].replan.revisions = trace[i].top.revisions + 1

\* the plan after the call of pass i is the plan before it unless the
\* planner returned a different one
ReplanAdoptsOnlyDifferent(i) == ~trace[i].replan.differs => trace[i].replan.kept

\* C12: the guard at the top of an iteration calls revise_plan only when
\* replan budget remains and a repeat counter reached its threshold, or
\* failure_count >= 3, or the current step is failed; every such call
\* decrements the replan budget, resets the repeat counters and the last
\* action signature, and the returned plan replaces the plan only if it differs.
C12_ReplanGuard ==
    \A i \in Passes :
        ReplanAsked(i) =>
            /\ ReplanDue(i)
            /\ ReplanSpendsBudget(i)
            /\ ReplanResets(i)
            /\ ReplanAdoptsOnlyDifferent(i)

\* C13: no action proposed by the executor and no driver error makes an
\* exception leave the loop: no pass ends in an exception raised by
\* ActionEngine.execute, and a wait with negative seconds that reached the
\* router is recorded as an unsuccessful result.
C13_NoActionRaises ==
    \A i \in Passes :
        /\ trace[i].raised # "execute"
        /\ trace[i].a = "wait_neg" /\ trace[i].routed => ~trace[i].success

\* the loop has ended by break (noop, plan completed, stuck without
\* recovery), by should_halt() or by KeyboardInterrupt
LoopEnded == loop.pc \in {"done", "halted", "interrupted"}

\* _run_session has returned its summary
Returned == loop.pc = "returned"

\* nothing is written before the session returns; when it has returned, the
\* log of the history lines and the Episode have been written, once each,
\* under the id of the plan
WrittenOnceAtReturn ==
    IF Returned
    THEN fs = << FileWrite(1, "logs", plan.id, state.history, ""),
                 FileWrite(1, "episodes", plan.id, << >>, Outcome(state, plan)) >>
    ELSE fs = << >>

OnlyGlobalHotkey ==
    /\ Len(trace) >= 4
    /\ \A i \in Passes : trace[i].a = "ks" /\ ~trace[i].changed /\ ~trace[i].interrupted

\* C15: when the executor returns cmd+space on every turn and no frame ever
\* changes, the first two are dispatched and the later ones are recorded
\* "hotkey deduped"; when the loop has ended, a pass has recorded the stuck
\* reason "repeat_same_action:3" and asked the reflector for a hint, and the
\* last pass is a pending break whose recovery failed.
C15_GlobalHotkeyEndsStuck ==
    OnlyGlobalHotkey /\ loop.pc # "loop" =>
        /\ \A i \in Passes : i >= 3 => trace[i].reason = "hotkey deduped" /\ ~trace[i].routed
        /\ \E i \in Passes : /\ trace[i].stuck.reason = "repeat_same_action:3"
                              /\ trace[i].stuck.hint_asked
        /\ IsStuckPass(Len(trace)) /\ ~trace[Len(trace)].stuck.went_on

\* the names of the proposed left clicks
Clicks == {n \in DOMAIN Proposed : Proposed[n].type = "left_click"}

\* pass i executed its action and went through to the end of the body
RanThrough(i) ==
    /\ trace[i].routed /\ trace[i].raised = ""
    /\ ~trace[i].interrupted /\ ~trace[i].completed

\* pass i is a click that produced no change
UnchangedClick(i) == RanThrough(i) /\ trace[i].a \in Clicks /\ ~trace[i].changed

\* pass i repeats the click of the pass before it, with no replanning and
\* no stuck recovery in between, and produces no change
UnchangedRepeat(i) ==
    /\ i > 1
    /\ UnchangedClick(i) /\ RanThrough(i - 1)
    /\ trace[i].a = trace[i - 1].a
    /\ ~ReplanAsked(i) /\ ~IsStuckPass(i - 1)

\* a pending break is raised in the pass that ends n + 1 consecutive
\* iterations of the same click without change
StuckAfterRepeats(n) ==
    \A i \in Passes :
        (/\ i > n
         /\ \A k \in 0..(n - 1) : UnchangedRepeat(i - k)
         /\ UnchangedClick(i - n)) => IsStuckPass(i)

\* a pending break to which the planner, asked while replan budget remained,
\* answered with a different plan: the loop goes on, one unit of the budget
\* is spent, and the next pass starts with the repeat counters at 0
RevisedPlanRecovers ==
    \A i \in Passes :
        (/\ IsStuckPass(i)
         /\ trace[i].replan.revisions < MaxPlanRevisions
         /\ trace[i].stuck.differs) =>
            /\ trace[i].stuck.revise_asked /\ trace[i].stuck.went_on
            /\ i < Len(trace) =>
                  /\ trace[i + 1].top.revisions = trace[i].replan.revisions + 1
                  /\ trace[i + 1].top.repeat_same_action = 0
                  /\ trace[i + 1].top.repeat_without_change = 0
            /\ i = Len(trace) =>
                  /\ loop.pc # "done"
                  /\ loop.plan_revision_count = trace[i].replan.revisions + 1
                  /\ loop.repeat_same_action = 0 /\ loop.repeat_without_change = 0
                  /\ loop.last_action_sig = None

\* C16 as stated: two consecutive iterations of the same click without
\* change raise a pending break; with replan budget left and a different
\* plan from the planner the plan is adopted, the counters are reset, the
\* loop continues and one unit of the budget is spent.
C16_StuckAfterTwoClicks == StuckAfterRepeats(1) /\ RevisedPlanRecovers

\* C16 amended: the pending break is raised by the third consecutive
\* iteration of the same click without change (repeat_without_change counts
\* the repeats and its threshold is 2); the recovery is as stated.
C16_StuckAfterThreeClicks == StuckAfterRepeats(2) /\ RevisedPlanRecovers

\* three unchanged clicks, "repeat_without_change" at the third with the
\* whole budget of 3 left, a different plan, and a fourth pass that starts
\* with the counters at 0 and 2 revisions left
C16_Witness ==
    /\ Len(trace) >= 4
    /\ UnchangedClick(1) /\ UnchangedRepeat(2) /\ UnchangedRepeat(3)
    /\ ~IsStuckPass(2)
    /\ trace[3].stuck.reason = "repeat_without_change"
    /\ trace[3].replan.revisions = 0
    /\ trace[3].stuck.differs /\ trace[3].stuck.went_on
    /\ MaxPlanRevisions - trace[4].top.revisions = 2
    /\ trace[4].top.repeat_same_action = 0 /\ trace[4].top.repeat_without_change = 0

\* the executor's first response was noop and the session has returned
NoopFirst ==
    /\ Returned
    /\ Len(trace) = 1
    /\ trace[1].a = "noop" /\ ~trace[1].interrupted

\* the lines of the episode log and the outcome of the Episode that were written
EpisodeLog == fs[1].lines
EpisodeOutcome == fs[2].outcome

\* C17: when the executor's first response is noop, the loop exits with 0
\* recorded steps, the persisted episode outcome is success, and the episode
\* log has exactly two lines, the user_prompt line and the plan-init line.
C17_NoopFirstIsSuccess ==
    NoopFirst =>
        /\ state.steps = 0
        /\ EpisodeOutcome = "success"
        /\ Len(EpisodeLog) = 2
        /\ {EpisodeLog[k] : k \in 1..Len(EpisodeLog)} = {"user_prompt", "plan_init"}

\* C18: the persisted outcome is success only when failure_count = 0 and the
\* plan has no current step at the end of the task, incomplete whenever the
\* plan still has a current step, and mixed when the plan has none and
\* failure_count > 0.
C18_OutcomeOfEpisode ==
    Returned =>
        /\ EpisodeOutcome \in {"success", "mixed", "incomplete"}
        /\ EpisodeOutcome = "success" => state.failure_count = 0 /\ ~HasCurrentStep(plan)
        /\ HasCurrentStep(plan) => EpisodeOutcome = "incomplete"
        /\ ~HasCurrentStep(plan) /\ state.failure_count > 0 => EpisodeOutcome = "mixed"

\* a session whose plan was completed after a failed action has persisted
\* the outcome mixed
C18_Witness ==
    /\ Returned
    /\ ~HasCurrentStep(plan) /\ state.failure_count > 0
    /\ \E i \in Passes : trace[i].completed
    /\ EpisodeOutcome = "mixed"

\* the subcommand a command line invokes: its first token after the
\* executable that is not an option, None when there is none
InvokedSubcommand(argv) ==
    LET at == {i \in 2..Len(argv) : ~StartsWithDash(argv[i])}
    IN IF at = {} THEN None
       ELSE argv[CHOOSE i \in at : \A j \in at : i <= j]

\* the executable of the command resolves to an absolute path in the
\* allowlist and, when the path has a subcommand list, the invoked
\* subcommand is in it
Allowlisted(a) ==
    LET argv == CmdTokens(a)
    IN /\ ~Malformed(argv) /\ Len(argv) > 0
       /\ Which(argv[1]) \in AllowedCommandPaths
       /\ \/ "*" \in AllowedArgs(Which(argv[1]))
          \/ InvokedSubcommand(argv) \in AllowedArgs(Which(argv[1])) \cup {None}

\* the macOS router has returned from a sandbox_shell action
ShellActionDone ==
    /\ rt.phase = "done"
    /\ rt.env.platform = "macos"
    /\ rt.action.type = "sandbox_shell"

\* the router called the shell driver for the action
ShellDriverCalled ==
    \E k \in 1..Len(rt.events) : rt.events[k] = Ev("driver", "shell", << >>)

\* C19: a sandbox_shell action reaches the shell driver only if its
\* executable resolves to an allowlisted absolute path and, for an
\* executable with a subcommand list, the invoked subcommand is in the list;
\* otherwise the policy denies, the result is a failure that increments
\* failure_count when recorded, and the shell driver is not called.
C19_ShellOnlyIfAllowlisted ==
    ShellActionDone =>
        IF Allowlisted(rt.action) THEN TRUE
        ELSE /\ ~ShellDriverCalled
             /\ \E k \in 1..Len(rt.events) : rt.events[k] = Ev("policy", "deny", << >>)
             /\ ~rt.result.success
             /\ RecordAction(NewState, rt.result).failure_count = 1

(***************************************************************************)
(* C20: for any interleaving of two tasks that run against the same       *)
(* memory root, every file of the skill, episode and log directories is   *)
(* written by at most one task: no two writes to one file name of one     *)
(* directory come from different tasks.                                   *)
(***************************************************************************)
SameFile(w1, w2) == w1.dir = w2.dir /\ w1.name = w2.name

C20_OneWriterPerFile ==
    \A i, j \in 1..Len(fs) : SameFile(fs[i], fs[j]) => fs[i].task = fs[j].task

(***************************************************************************)
(* C21: the orchestrator persists a ProceduralSkill in an iteration if and *)
(* only if the executed action is a macro_actions whose result is          *)
(* successful and which produced a visible change; a single action never   *)
(* creates or updates a skill, nor does a macro that failed or changed     *)
(* nothing.                                                                *)
(***************************************************************************)
\* the skill files differ after the pass
SkillPersisted(r) == r.skill.after # r.skill.before

\* the action the pass handed to the router is a macro_actions: one the
\* executor proposed, or the one lines 175-180 build for a run_skill
ExecutedMacro(r) == r.type = "macro_actions" \/ (r.type = "run_skill" /\ r.usage.found)

\* the pass ran a macro_actions with success
MacroSucceeded(r) == ExecutedMacro(r) /\ r.routed /\ r.success

\* the screen after the action differs from the screen before it: what the
\* comparison found, or the frames themselves when verify_after is false
VisibleChange(r) == IF r.verify THEN r.changed ELSE ~r.frame_same

C22_ExitCodes ==
    cli.pc = "exited" =>
        /\ cli.exit = 0 => cli.last = "blank prompt"
        /\ cli.last \in {"load failed", "health failed"} =>
              /\ cli.exit # 0
              /\ cli.errors # << >>
              /\ cli.tasks_done = 0 /\ cli.task_events = << >>

(***************************************************************************)
(* C29: when the health check reports a missing permission, run_task       *)
(* raises before any frame is captured, any plan is requested, any action  *)
(* is proposed or executed, and any episode is persisted.                  *)
(***************************************************************************)
\* a permission the health check asks for is not granted
PermissionMissing ==
    \/ "Screen Recording" \notin cli.perms
    \/ cli.needs_ax /\ "Accessibility" \notin cli.perms

C29_HealthFailureAbortsTask ==
    /\ PermissionMissing =>
          /\ cli.task_events = << >>
          /\ cli.pc \notin {"capture", "make_plan", "run_session"}
    /\ (PermissionMissing /\ cli.pc = "exited" /\ cli.prompts > 0 /\ cli.last # "blank prompt")
          => (cli.last = "task health failed" /\ cli.exit = 1)

\* a task ran, the permission went away, and the next run_task raised
C29_Witness ==
    /\ cli.last = "task health failed"
    /\ cli.tasks_done >= 1
    /\ PermissionMissing


(***************************************************************************)
(* The clipboard read of the router runs.                                  *)
(***************************************************************************)
ReadDone ==
    /\ rt.phase = "done"
    /\ IsClipboardRead(rt.action)
    /\ rt.result.metadata.present

\* C23: a clipboard read whose content matches one of the four secret
\* patterns, or has at least 32 characters and a Shannon entropy above 4
\* bits a character, returns the content "<REDACTED>" with redacted true,
\* a reason that does not depend on the content, and nothing else; any
\* other read returns the content unchanged with redacted false.
C23_ClipboardRedaction ==
    ReadDone =>
        LET content == rt.env.clipboard
            secret == \/ MatchesPem(content) \/ MatchesAws(content)
                      \/ MatchesJwt(content) \/ MatchesAssignment(content)
                      \/ (Len(content) >= 32 /\ HighEntropy(content))
        IN IF secret
           THEN rt.result = [Result(TRUE, "read clipboard (redacted)") EXCEPT
                               !.metadata = [present |-> TRUE, content |-> Redacted,
                                             redacted |-> TRUE]]
           ELSE /\ rt.result.metadata.content = content
                /\ ~rt.result.metadata.redacted

\* a read redacted for its entropy alone
C23_Witness ==
    /\ ReadDone
    /\ rt.env.clipboard = ClipboardSamples.seventeen
    /\ ~MatchesSecretPattern(rt.env.clipboard)
    /\ rt.result.metadata.redacted
    /\ rt.result.metadata.content = Redacted

(***************************************************************************)
(* The exclusion zones of the policy runs.                                 *)
(***************************************************************************)
\* the zones of the rules that hold the point (px, py), borders included
ZonesHolding(rules, px, py) ==
    {i \in 1..Len(rules.exclusion_zones) :
        LET z == rules.exclusion_zones[i]
        IN /\ px # NoCoord /\ py # NoCoord
           /\ z.x <= px /\ px <= z.x + z.w
           /\ z.y <= py /\ py <= z.y + z.h}

ZonesOfAction(rules, a) ==
    ZonesHolding(rules, a.x, a.y) \cup ZonesHolding(rules, a.target_x, a.target_y)

\* rules 1 and 2 of the evaluation order, and the confirmation the Windows
\* router asks for before it consults the engine
StoppedEarlier(engine, rules, a) ==
    \/ a.type \in rules.blocked_actions
    \/ a.command # None /\ a.command \in rules.blocked_actions
    \/ /\ a.type = "browser_op" /\ a.command = "run_javascript"
       /\ \/ \E d \in rules.sensitive_domains : HostMatches(a.url, d)
          \/ ContainsDangerousJs(a.value)
    \/ engine = "windows_router" /\ RequiresHitl(a)

ZoneReasons == {"interaction in exclusion zone", "interaction target in exclusion zone"}

\* C24: an action that no earlier rule stopped and that has its (x, y) or
\* its (target_x, target_y) inside an exclusion zone, borders included, is
\* denied with a reason that names a zone holding one of its points; an
\* action with every point outside every zone is not denied by the zone
\* rule.
C24_ZoneDenies ==
    pol.phase = "decided" =>
        LET hit == ZonesOfAction(pol.rules, pol.action)
        IN /\ (hit # {} /\ ~StoppedEarlier(pol.engine, pol.rules, pol.action)) =>
                /\ ~pol.decision.allowed
                /\ pol.decision.reason \in ZoneReasons
                /\ \E i \in hit : pol.decision.detail = pol.rules.exclusion_zones[i].label
           /\ hit = {} => pol.decision.reason \notin ZoneReasons

\* the same on the engines other than the Windows one
C24_ZoneDeniesOffWindows ==
    pol.engine \in {"core", "mac"} => C24_ZoneDenies

(***************************************************************************)
(* The StateManager on its own: one object of either package is handed a   *)
(* stream of actions and results while should_halt is false.  trace holds, *)
(* for every call, the result and the counters before and after it.        *)
(***************************************************************************)
MaxRecorded == 6
StateFailures == 3

StateSession ==
    [DefaultSession EXCEPT !.name = "state_manager", !.max_steps = MaxRecorded,
                           !.max_failures = StateFailures]

RecordedResults ==
    {Result(TRUE, "ok"), Result(FALSE, "driver failed"), Result(FALSE, "hotkey deduped")}

InitState ==
    /\ PlanIdle
    /\ PolIdle
    /\ RtIdle
    /\ SkIdle
    /\ TasksIdle
    /\ CliIdle
    /\ cfg = StateSession
    /\ \E mod \in {"cua_agent", "macos_cua_agent"} : state = [NewState EXCEPT !.module = mod]
    /\ loop = IdleLoop
    /\ trace = << >>
    /\ fs = << >>

\* while not state.should_halt(): state.record_action(action, result)
StateRecordAction ==
    /\ ~ShouldHalt(cfg, state, 0)
    /\ \E result \in RecordedResults :
          /\ state' = IF state.module = "macos_cua_agent" THEN MacRecordAction(state, result)
                       ELSE RecordAction(state, result)
          /\ trace' = Append(trace, [success |-> result.success, reason |-> result.reason,
                                     steps0 |-> state.steps,
                                     failures0 |-> state.failure_count,
                                     steps |-> state'.steps,
                                     failure_count |-> state'.failure_count])
    /\ UNCHANGED << cfg, loop, fs, plan, plan_ops, pol, rt, sk, tasks, cli >>

NextState == StateRecordAction

SpecState == InitState /\ [][NextState]_vars

OnlyDedupedHotkeys == \A i \in 1..Len(trace) : trace[i].reason = "hotkey deduped"

\* C25: every record_action adds 1 to steps, and adds 1 to failure_count
\* exactly when the result failed with a reason other than "hotkey deduped";
\* after a stream of deduped hotkeys alone failure_count is below
\* max_failures.
C25_RecordActionCounts ==
    /\ \A i \in 1..Len(trace) :
          /\ trace[i].steps = trace[i].steps0 + 1
          /\ trace[i].failure_count =
                IF ~trace[i].success /\ trace[i].reason # "hotkey deduped"
                THEN trace[i].failures0 + 1 ELSE trace[i].failures0
    /\ OnlyDedupedHotkeys => state.failure_count < cfg.max_failures

\* the same for the StateManager of cua_agent alone
C25_RecordActionCountsCuaAgent ==
    state.module = "cua_agent" => C25_RecordActionCounts

(***************************************************************************)
(* The plans PlannerClient builds: make_plan and revise_plan are handed    *)
(* what the planner answered, once each, and trace keeps the last call     *)
(* (the answer, whether the client exists, and the plan held before).      *)
(***************************************************************************)
InitParse ==
    /\ PlanIdle
    /\ PolIdle
    /\ RtIdle
    /\ SkIdle
    /\ SessionIdle
    /\ TasksIdle
    /\ CliIdle

\* orchestrator line 55: plan = self.planner.make_plan(...)
ParseMakePlan ==
    /\ trace = << >>
    /\ \E c \in BOOLEAN, out \in PlannerOutputs :
          /\ plan' = MakePlan(c, out)
          /\ trace' = << [op |-> "make_plan", client |-> c, out |-> out, before |-> plan] >>
    /\ UNCHANGED << cfg, state, loop, fs, plan_ops, pol, rt, sk, tasks, cli >>

\* orchestrator line 109: revised_plan = self.planner.revise_plan(...), by the
\* PlannerClient that made the plan
ParseRevisePlan ==
    /\ trace # << >>
    /\ trace[1].op = "make_plan"
    /\ \E out \in PlannerOutputs :
          /\ plan' = RevisePlan(trace[1].client, plan, out)
          /\ trace' = << [op |-> "revise_plan", client |-> trace[1].client, out |-> out,
                          before |-> plan] >>
    /\ UNCHANGED << cfg, state, loop, fs, plan_ops, pol, rt, sk, tasks, cli >>

NextParse == ParseMakePlan \/ ParseRevisePlan

SpecParse == InitParse /\ [][NextParse]_vars

\* the plan held is the one the last call built from what the planner said
BuiltFromOutput == trace # << >> /\ trace[1].client /\ trace[1].out.ok

\* C26: a plan built from planner output has exactly one in_progress step
\* and its current_step_index is the index of that step.
C26_OneInProgressAtIndex ==
    BuiltFromOutput =>
        /\ Cardinality(InProgressPositions(plan)) = 1
        /\ HasCurrentStep(plan)
        /\ InProgressPositions(plan) = {CurrentStepPos(plan)}

\* the half of C26 that holds: exactly one step of the plan is in_progress
C26_OneInProgress ==
    BuiltFromOutput => Cardinality(InProgressPositions(plan)) = 1

\* C27: a planner answer with steps gives a plan with one step for each of
\* them, in order, with its id and its status (the first one promoted from
\* pending to in_progress); the fallback steps stand for an answer without
\* steps only.
C27_StepsPreserved ==
    (BuiltFromOutput /\ trace[1].out.statuses # << >>) =>
        LET raw == trace[1].out.statuses
        IN /\ Len(plan.steps) = Len(raw)
           /\ \A i \in 1..Len(raw) :
                 /\ i <= Len(plan.steps)
                 /\ plan.steps[i].id = i - 1
                 /\ \/ plan.steps[i].status = raw[i]
                    \/ i = 1 /\ raw[i] = "pending" /\ plan.steps[i].status = "in_progress"

(***************************************************************************)
(* save_skill of two tasks on one skill directory.                         *)
(***************************************************************************)
\* how often the file of skill id was written
SkillWrites(id) ==
    Cardinality({i \in 1..Len(fs) : fs[i].dir = "skills" /\ fs[i].name = id})

NoSaveInFlight == \A t \in Tasks : tasks[t].pc # "save_skill"

OneSkillPerFingerprint ==
    \A s1 \in sk.store, s2 \in sk.store : s1.fingerprint = s2.fingerprint => s1.id = s2.id

\* a skill file is written once when it is made and once for every
\* increment of usage_count
NoIncrementLost == \A s \in sk.store : s.usage_count + 1 = SkillWrites(s.id)

\* C30: when the save_skill calls of the two tasks have returned, however
\* their lookups and writes interleaved, the store holds one skill for
\* each fingerprint and no increment of usage_count is lost.
C30_InterleavedSaveSkill ==
    NoSaveInFlight => OneSkillPerFingerprint /\ NoIncrementLost

(***************************************************************************)
(* A failed request of the executor.  Proposed.llm_failed is what          *)
(* CognitiveCore.propose_action returns when the request raised: the noop  *)
(* with the reason "Failed to generate action".                            *)
(***************************************************************************)
\* C28: after a failed request of the executor propose_action returns its
\* noop and the loop goes on to its next iteration: the pass that got the
\* fallback does not end the loop by break.
C28_LoopGoesOnAfterFailedRequest ==
    (trace # << >> /\ trace[Len(trace)].a = "llm_failed"
                   /\ ~trace[Len(trace)].interrupted) =>
        /\ trace[Len(trace)].type = "noop"
        /\ loop.pc # "done"

(***************************************************************************)
(* The dedup ledger and optimistic mode (verify_after = false).            *)
(***************************************************************************)
\* the step is a pass through the loop body, and the record of that pass
PassAdded == Len(trace') = Len(trace) + 1
AddedPass == trace'[Len(trace')]

\* pass r went to the router and on to the end of the body
RanToEnd(r) == r.routed /\ r.raised = "" /\ ~r.interrupted

\* no entry of the ledger was dropped or lowered by the step
LedgerKept ==
    \A key \in DOMAIN loop.hotkey_counts :
        /\ key \in DOMAIN loop'.hotkey_counts
        /\ loop'.hotkey_counts[key] >= loop.hotkey_counts[key]

\* a deduped hotkey of pass j that carries verify_after = false follows a
\* dispatch of its combo that was sent with verification
DedupedOnlyAfterVerified(t) ==
    \A j \in 1..Len(t) :
        (/\ Proposed[t[j].a].type = "key" /\ ~Proposed[t[j].a].verify_after
         /\ t[j].reason = "hotkey deduped") =>
            \E i \in 1..(j - 1) :
                /\ Proposed[t[i].a].type = "key" /\ t[i].routed
                /\ Combo(Proposed[t[i].a].keys) = Combo(Proposed[t[j].a].keys)
                /\ Proposed[t[i].a].verify_after

\* C31: the ledger of hotkeys and open_app is cleared only in a pass that
\* recorded changed = true or completed a step; an executed action with
\* verify_after = false is recorded as changed whatever the frames are, so
\* it empties the ledger and resets low_change_streak, and hotkeys that are
\* all sent with verify_after = false are never deduped.
C31_OptimisticClearsLedger ==
    [][/\ ~PassAdded => loop'.hotkey_counts = loop.hotkey_counts
       /\ PassAdded =>
            /\ LedgerKept \/ AddedPass.changed \/ AddedPass.completed
            /\ RanToEnd(AddedPass) /\ ~Proposed[AddedPass.a].verify_after =>
                  /\ ~AddedPass.verify /\ AddedPass.changed
                  /\ DOMAIN loop'.hotkey_counts = {}
                  /\ loop'.low_change_streak = 0
            /\ DedupedOnlyAfterVerified(trace')]_vars

\* the same hotkey was sent four times with verify_after = false on a
\* screen that never changed: each was dispatched and recorded as changed
C31_Witness ==
    /\ Len(trace) = 4
    /\ \A i \in 1..4 : /\ trace[i].a = "k1_nv" /\ RanToEnd(trace[i])
                       /\ trace[i].frame_same /\ trace[i].changed
    /\ DOMAIN loop.hotkey_counts = {}
    /\ loop.low_change_streak = 0

(***************************************************************************)
(* The signature history and the n-gram cycle test.                        *)
(***************************************************************************)
\* pass r reached line 307: its action was executed and observed
Appended(r) == r.routed /\ r.raised # "execute" /\ (~r.interrupted \/ r.verify \/ r.changed)

\* the last k signatures of h equal the k signatures before them
Repeats(h, k) ==
    /\ Len(h) >= 2 * k
    /\ \A n \in 1..k : h[Len(h) - k + n] = h[Len(h) - 2 * k + n]

\* the step appends the signature of the executed action, or leaves the
\* history as it is
HistoryOnlyGrows ==
    /\ ~PassAdded => loop'.action_sig_history = loop.action_sig_history
    /\ PassAdded =>
          loop'.action_sig_history =
              IF Appended(AddedPass) THEN Append(loop.action_sig_history, AddedPass.a)
              ELSE loop.action_sig_history

\* the pass ended the loop at line 369 (the plan is completed) or by an
\* exception, before the break test
EndedBeforeBreakTest(r) == r.raised # "" \/ r.interrupted \/ (r.completed /\ ~HasCurrentStep(plan'))

\* C32 as stated: every executed action appends its signature; the pass
\* raises the pending break "oscillatory_loop" exactly if for some k in 2..5
\* the last k signatures equal the k before them; the history is never
\* cleared, also after a recovered break.
C32_CycleIffBreak ==
    [][/\ HistoryOnlyGrows
       /\ PassAdded /\ Appended(AddedPass) /\ ~AddedPass.interrupted =>
             (AddedPass.stuck.reason = "oscillatory_loop"
                <=> \E k \in 2..5 : Repeats(loop'.action_sig_history, k))]_vars

\* C32 amended: the same, for a pass that reaches the break test; a pass
\* that completes the last step of the plan, or that an exception leaves,
\* ends the loop without a pending break whatever the history holds.
C32_CycleIffBreakWhenTested ==
    [][/\ HistoryOnlyGrows
       /\ PassAdded /\ Appended(AddedPass) =>
             IF EndedBeforeBreakTest(AddedPass)
             THEN AddedPass.stuck.reason = ""
             ELSE (AddedPass.stuck.reason = "oscillatory_loop"
                     <=> \E k \in 2..5 : Repeats(loop'.action_sig_history, k))]_vars

\* a recovered oscillatory_loop break, then a pass whose action closes a
\* cycle with signatures from before that break
C32_Witness ==
    \E i \in Passes, j \in Passes :
        /\ i < j
        /\ trace[i].stuck.reason = "oscillatory_loop" /\ trace[i].stuck.went_on
        /\ trace[j].stuck.reason = "oscillatory_loop"
        /\ \A n \in (i + 1)..(j - 1) : ~trace[n].routed
        /\ Len(loop.action_sig_history) >= 5

(***************************************************************************)
(* The change decision of a verified pass.  seen holds what the pass got:  *)
(* the frames before and after the action and the trees                    *)
(* get_active_window_tree returned before and after it.                    *)
(***************************************************************************)
\* the ordered rule on the frames and on a verdict about the trees
OrderedRule(c, seen, trees_differ) ==
    IF trees_differ THEN TRUE
    ELSE IF \E s \in StructuralSimilarity(c.skimage, seen.prev, seen.next) :
               s < SsimChangeThreshold THEN TRUE
    ELSE IF HashDistance(seen.prev, seen.next) > PhashStaticThreshold THEN TRUE
    ELSE HasChanged(seen.prev, seen.next)

\* pass i ran the detector
Verified(i) == trace[i].routed /\ trace[i].verify

\* C33: the change decision of a verified pass is the ordered rule: true if
\* the trees fetched before and after the action are both present and
\* differ, else true if SSIM is available and below the threshold, else
\* true if the hash distance exceeds 1, else the pixel test; a missing tree
\* never makes the decision true by itself.
C33_OrderedChangeRule ==
    \A i \in Passes :
        Verified(i) =>
            trace[i].changed =
                OrderedRule(cfg, trace[i].seen,
                            /\ trace[i].seen.tb # {} /\ trace[i].seen.ta # {}
                            /\ trace[i].seen.tb # trace[i].seen.ta)

\* the decision is the ordered rule when the tree before the action is
\* taken as the loop holds it, pruned for the prompt
C33_OrderedChangeRuleOnPrunedTree ==
    \A i \in Passes :
        Verified(i) =>
            trace[i].changed =
                OrderedRule(cfg, trace[i].seen,
                            \E b \in trace[i].seen.tb, a \in trace[i].seen.ta :
                                PruneAxTreeForPrompt(b) # a)

(***************************************************************************)
(* run_skill in the loop.  usage holds what get_skill found at line 164.   *)
(***************************************************************************)
\* pass i got a run_skill action and was not interrupted
IsRunSkill(i) == trace[i].type = "run_skill" /\ ~trace[i].interrupted

\* the stored skill of that id
SkillOf(store, id) == CHOOSE s \in store : s.id = id

\* the usage_count of the skill pass i ran, after the pass
UsageAfter(i) == SkillOf(trace[i].skill.after, trace[i].usage.id).usage_count

\* a run_skill whose skill is not found is recorded as the failure "skill
\* not found", reaches no driver and leaves the store as it was
MissingSkillIsFailure(i) ==
    /\ ~trace[i].success /\ trace[i].reason = "skill not found"
    /\ ~trace[i].routed /\ trace[i].drivers = 0
    /\ trace[i].skill.after = trace[i].skill.before
    /\ i = Len(trace) => sk.store = trace[i].skill.after

\* the skill's actions went to the router as one macro_actions
RanAsMacro(i) ==
    /\ trace[i].routed
    /\ trace[i].success =>
          trace[i].drivers = Len(SkillOf(trace[i].skill.after, trace[i].usage.id).actions)

\* C34: a run_skill whose skill is found adds exactly 1 to the usage_count
\* of that skill and executes its actions as one macro_actions through the
\* router; one whose skill is not found is recorded as the failure "skill
\* not found", dispatches nothing and changes no skill.
C34_RunSkillCountsOnce ==
    \A i \in Passes :
        IsRunSkill(i) =>
            IF trace[i].usage.found
            THEN RanAsMacro(i) /\ UsageAfter(i) = trace[i].usage.before + 1
            ELSE MissingSkillIsFailure(i)

\* the count rises by 1, and by 2 when the macro succeeded on a changed
\* screen and _maybe_save_skill saved it again
C34_RunSkillCountsOnceOrTwice ==
    \A i \in Passes :
        IsRunSkill(i) =>
            IF trace[i].usage.found
            THEN /\ RanAsMacro(i)
                 /\ UsageAfter(i) = trace[i].usage.before
                                    + (IF trace[i].skill.called THEN 2 ELSE 1)
                 /\ trace[i].skill.called <=> trace[i].success /\ trace[i].changed
            ELSE MissingSkillIsFailure(i)

(***************************************************************************)
(* notebook_op and noop: what an iteration leaves as it is.                *)
(***************************************************************************)
\* the locals of the loop with the clock of the model left out
Locals(lp) == [lp EXCEPT !.elapsed = 0, !.pc = "loop"]

\* the locals after the guard at the top of pass r reset them
AfterGuard(lp, r) ==
    IF r.replan.asked
    THEN [Locals(lp) EXCEPT !.repeat_same_action = 0, !.repeat_without_change = 0,
                            !.last_action_sig = None,
                            !.plan_revision_count = r.replan.revisions]
    ELSE Locals(lp)

\* the step added a pass with an action of that type, not interrupted
PassOfType(type) == PassAdded /\ AddedPass.type = type /\ ~AddedPass.interrupted

\* what a notebook_op pass does to the StateManager: one action recorded,
\* a failure for an unknown op only, the notes added or cleared
NotebookRecorded ==
    /\ state'.steps = state.steps + 1
    /\ state'.failure_count =
          state.failure_count + (IF Proposed[AddedPass.a].op \in {"add_note", "clear_notes"}
                                 THEN 0 ELSE 1)
    /\ state'.notebook = CASE Proposed[AddedPass.a].op = "add_note" -> state.notebook + 1
                           [] Proposed[AddedPass.a].op = "clear_notes" -> 0
                           [] OTHER -> state.notebook
    /\ state'.stuck_reasons = state.stuck_reasons
    /\ state'.history[Len(state'.history)] = "action"
    /\ ~AddedPass.routed /\ AddedPass.drivers = 0
    /\ sk' = sk

\* what a noop pass does: the loop ends and no action is recorded
NoopEndsLoop ==
    /\ loop'.pc = "done"
    /\ state'.steps = state.steps /\ state'.failure_count = state.failure_count
    /\ state'.notebook = state.notebook
    /\ \A n \in 1..Len(state'.history) : n > Len(state.history) => state'.history[n] # "action"
    /\ ~AddedPass.routed /\ AddedPass.drivers = 0
    /\ sk' = sk

\* C35 as stated: an iteration whose action is notebook_op changes only the
\* notebook, history, steps and (unknown op) failure_count, reaches neither
\* policy nor router nor capture and leaves the plan, the frame, the ledger,
\* the repeat counters, the signature history and low_change_streak as they
\* were; a noop ends the loop without recording an action.
C35_NotebookOpFrame ==
    [][/\ PassOfType("notebook_op") =>
             /\ NotebookRecorded
             /\ plan' = plan
             /\ Locals(loop') = Locals(loop)
       /\ PassOfType("noop") => NoopEndsLoop /\ plan' = plan]_vars

\* C35 amended: the same from the point where the action is proposed; the
\* replan guard at the top of the iteration runs before that whatever the
\* action will be, and when it calls revise_plan it may replace the plan and
\* it resets the repeat counters and the last signature.
C35_NotebookOpFrameAfterGuard ==
    [][/\ PassOfType("notebook_op") =>
             /\ NotebookRecorded
             /\ ~AddedPass.replan.differs => plan' = plan
             /\ Locals(loop') = AfterGuard(loop, AddedPass)
       /\ PassOfType("noop") =>
             /\ NoopEndsLoop
             /\ ~AddedPass.replan.differs => plan' = plan
             /\ Locals(loop') = AfterGuard(loop, AddedPass)]_vars

\* a note was added in a pass that started with a hotkey in the ledger and
\* whose guard replaced the plan
C35_Witness ==
    \E i \in Passes :
        /\ trace[i].a = "note_add" /\ trace[i].success
        /\ DOMAIN trace[i].top.hotkey_counts # {}
        /\ trace[i].replan.differs
        /\ state.notebook >= 1
        /\ DOMAIN loop.hotkey_counts # {}

(***************************************************************************)
(* The repeat counters.                                                    *)
(***************************************************************************)
\* C36: at the top of every iteration repeat_same_action <= 2 and
\* repeat_without_change <= 1, no stuck reason "repeat_same_action:N" is
\* recorded (the fourth identical action in a row is caught by the cycle test
\* with k = 2, which resets both counters), and the replan guard never fires
\* on a repeat counter.
C36_RepeatCountersBounded ==
    /\ loop.repeat_same_action <= 2
    /\ loop.repeat_without_change <= 1
    /\ \A n \in 1..Len(state.stuck_reasons) :
          state.stuck_reasons[n] \in {"oscillatory_loop", "repeat_without_change",
                                     "visual_stagnation"}
    /\ \A i \in Passes :
          /\ trace[i].top.repeat_same_action <= 2
          /\ trace[i].top.repeat_without_change <= 1
          /\ trace[i].stuck.reason # "repeat_same_action:3"
          /\ trace[i].top.repeat_same_action = 2
               /\ RanThrough(i) /\ trace[i].a = trace[i - 1].a /\ trace[i].type # "wait"
             => /\ trace[i].stuck.reason = "oscillatory_loop"
                /\ i < Len(trace) => /\ trace[i + 1].top.repeat_same_action = 0
                                     /\ trace[i + 1].top.repeat_without_change = 0

\* four times the same click: the second saw no change, the third did and
\* started the fourth pass with repeat_same_action = 2, and the fourth ended
\* in the oscillatory break
C36_Witness ==
    /\ Len(trace) >= 4
    /\ \E i \in Passes :
          /\ i >= 4
          /\ \A j \in (i - 3)..i : trace[j].a = trace[i].a /\ RanThrough(j)
          /\ trace[i - 1].top.repeat_without_change = 1
          /\ trace[i].top.repeat_same_action = 2
          /\ trace[i].stuck.reason = "oscillatory_loop"
          /\ state.stuck_reasons # << >>

(***************************************************************************)
(* The step a stuck break marks failed.                                    *)
(***************************************************************************)
\* pass i raised a break with a plan step current when its action was proposed
BrokeOnStep(i) == IsStuckPass(i) /\ trace[i].stuck.proposed_pos # 0

\* C37: when a stuck break is handled, the step marked failed is the step
\* that was current when the action of the iteration was proposed, and the
\* plan_step_failed entry names the id of the step marked failed, also when
\* the iteration completed a step and advanced the plan before the break.
C37_FailedStepIsProposedStep ==
    \A i \in Passes :
        BrokeOnStep(i) =>
            /\ trace[i].stuck.failed_pos = trace[i].stuck.proposed_pos
            /\ trace[i].stuck.named = trace[i].stuck.marked

\* what the loop does: the step marked failed is the step current when the
\* break is handled, which is the proposed step unless the iteration
\* completed it, and then it is the step after it while the entry names
\* the completed step
C37_FailedStepIsCurrentAtBreak ==
    \A i \in Passes :
        BrokeOnStep(i) =>
            /\ trace[i].stuck.failed_pos =
                  trace[i].stuck.proposed_pos + (IF trace[i].completed THEN 1 ELSE 0)
            /\ ~trace[i].completed => trace[i].stuck.named = trace[i].stuck.marked
            /\ trace[i].stuck.step = "failed"

(***************************************************************************)
(* record_action and the limits of a task.                                 *)
(***************************************************************************)
\* pass r ended the loop at the noop check
EndedAtNoop(r) == r.type = "noop" /\ ~r.interrupted

\* pass r reached its record_action: it was not left before it by an
\* exception of ActionEngine.execute or by KeyboardInterrupt in
\* propose_action
ReachedRecordAction(r) ==
    /\ r.type # "noop"
    /\ r.raised # "execute"
    /\ ~(r.interrupted /\ ~r.routed)

\* with positive limits steps <= max_steps and failure_count <= max_failures,
\* and failure_count <= steps
WithinLimits ==
    /\ cfg.max_steps > 0 => state.steps <= cfg.max_steps
    /\ cfg.max_failures > 0 => state.failure_count <= cfg.max_failures
    /\ state.failure_count <= state.steps

BudgetsAfter(i) ==
    IF i < Len(trace)
    THEN trace[i + 1].top.hints + trace[i + 1].top.revisions
    ELSE loop.hint_count + loop.plan_revision_count

\* hint_count and plan_revision_count when the break of pass i was raised
BudgetsAtBreak(i) == trace[i].top.hints + trace[i].replan.revisions

\* C39: hint_count <= 3 and plan_revision_count <= 3 in every state, the
\* guard and the recovery drawing on the same revision budget; a recovered
\* stuck break takes at least one unit of one of the budgets, so a task
\* records at most 7 stuck reasons and the 7th break ends the loop.
C39_RecoveryBudgets ==
    /\ loop.hint_count <= MaxHints
    /\ loop.plan_revision_count <= MaxPlanRevisions
    /\ \A i \in Passes :
          /\ trace[i].top.hints <= MaxHints
          /\ trace[i].top.revisions <= trace[i].replan.revisions
          /\ trace[i].replan.revisions <= MaxPlanRevisions
          /\ trace[i].replan.asked => trace[i].top.revisions < MaxPlanRevisions
          /\ IsStuckPass(i) =>
                /\ trace[i].stuck.revise_asked = (trace[i].replan.revisions < MaxPlanRevisions)
                /\ trace[i].stuck.went_on = (BudgetsAfter(i) > BudgetsAtBreak(i))
                /\ ~trace[i].stuck.went_on => i = Len(trace) /\ loop.pc # "loop"
    /\ Len(state.stuck_reasons) <= MaxHints + MaxPlanRevisions + 1
    /\ Len(state.stuck_reasons) = MaxHints + MaxPlanRevisions + 1 =>
          /\ IsStuckPass(Len(trace)) /\ ~trace[Len(trace)].stuck.went_on
          /\ loop.pc # "loop"

\* seven stuck breaks: six recovered, three by a hint and three by a revised
\* plan, and the seventh ended the loop
C39_Witness ==
    /\ Len(state.stuck_reasons) = MaxHints + MaxPlanRevisions + 1
    /\ loop.hint_count = MaxHints /\ loop.plan_revision_count = MaxPlanRevisions
    /\ IsStuckPass(Len(trace)) /\ ~trace[Len(trace)].stuck.went_on
    /\ trace[Len(trace)].stuck.hint_asked = FALSE
    /\ trace[Len(trace)].stuck.revise_asked = FALSE

(***************************************************************************)
(* Policy and the sub-actions of a macro.                                  *)
(***************************************************************************)
\* event k of the run is the policy verdict on a sub-action of the macro
SubActionVerdict(k) == rt.events[k].ev = "policy" /\ Len(rt.events[k].path) = 1

\* event k is a verdict that stops sub-action i: deny or human confirmation
SubActionStopped(k) == SubActionVerdict(k) /\ rt.events[k].who \in {"deny", "hitl"}

\* C40: the policy is evaluated for the sub-actions of a macro one at a
\* time, each just before its dispatch; when sub-action i is denied or needs
\* human confirmation, sub-actions 0..i-1 have been dispatched to their
\* drivers and stay so, nothing follows, and the macro is one failure.
C40_MacroPolicyPerSubAction ==
    IsMacroRun =>
        LET ev == rt.events
            sub == rt.result.subresults
        IN /\ \A j, k \in 1..Len(ev) :
                 SubActionVerdict(k) /\ ev[j].path # << >> =>
                     /\ ev[j].ev = "driver" /\ ev[j].path[1] = ev[k].path[1] => k < j
                     /\ ev[j].path[1] < ev[k].path[1] => j < k
                     /\ SubActionVerdict(j) /\ ev[j].path = ev[k].path => j = k
           /\ \A k \in 1..Len(ev) :
                 SubActionStopped(k) =>
                     LET i == ev[k].path[1]
                     IN /\ k = Len(ev)
                        /\ Len(sub) = i + 1
                        /\ \A m \in 0..(i - 1) :
                              /\ sub[m + 1].success
                              /\ \E j \in 1..(k - 1) : ev[j] = Ev("policy", "allow", << m >>)
                              /\ \E j \in 1..(k - 1) :
                                    ev[j].ev = "driver" /\ ev[j].path # << >> /\ ev[j].path[1] = m
                        /\ ~rt.result.success
                        /\ ~sub[i + 1].success
                        /\ rt.result.detail = << i, sub[i + 1].reason >>
                        /\ ev[k].who = "hitl" => sub[i + 1].reason = "human confirmation required"
                        /\ RecordAction(NewState, rt.result).failure_count = 1

\* a macro whose first sub-action reached its driver and whose second needs
\* human confirmation, or one whose third was denied after two dispatches
C40_Witness ==
    /\ IsMacroRun
    /\ ~rt.result.success
    /\ \E k \in 1..Len(rt.events) :
          /\ SubActionStopped(k)
          /\ \/ rt.events[k] = Ev("policy", "hitl", << 1 >>)
             \/ rt.events[k] = Ev("policy", "deny", << 2 >>)
          /\ \E j \in 1..(k - 1) : rt.events[j] = Ev("driver", "hid", << 0 >>)

====
